---- MODULE Spec2Model ----
(***************************************************************************)
(* GitGo (src/gitgov1.py): an interactive menu around git and the GitHub   *)
(* REST API.  The program is sequential: one dispatcher (GitGo.run), one   *)
(* handler per menu action, and the SSH provisioning procedure             *)
(* generate_github_ssh_keys_and_config.                                    *)
(*                                                                         *)
(* Strings the code inspects character by character (account labels, SSH   *)
(* aliases, remote names) are sequences of one-character strings.  Strings *)
(* the code only stores, prints or compares are one-element sequences.     *)
(*                                                                         *)
(* Spec          the program from its start (no argument, --help, setup or *)
(*               ssh-setup) to its end: dispatcher, account selection,     *)
(*               token resolution and the handlers.  The working directory *)
(*               and the process environment are external to the program:  *)
(*               each property of them is fixed at the moment the program  *)
(*               first inspects it.  Where the program calls               *)
(*               generate_github_ssh_keys_and_config (pc = "provision")    *)
(*               Spec stops; SpecProvision goes on from there.             *)
(* SpecProvision generate_github_ssh_keys_and_config from its entry (the   *)
(*               ssh-setup invocation, or choice 1 of the setup menu) to   *)
(*               its return, from the contents of ~/.ssh in PriorDisks.    *)
(***************************************************************************)
EXTENDS Integers, Sequences, FiniteSets, TLC

----------------------------------------------------------------------------
(* Characters and the string functions the code applies to them.           *)

LowerChars == << "a","b","c","d","e","f","g","h","i","j","k","l","m",
                 "n","o","p","q","r","s","t","u","v","w","x","y","z" >>
UpperChars == << "A","B","C","D","E","F","G","H","I","J","K","L","M",
                 "N","O","P","Q","R","S","T","U","V","W","X","Y","Z" >>
DigitChars == {"0","1","2","3","4","5","6","7","8","9"}
Whitespace == {" ", "\t"}

Range(s) == { s[i] : i \in DOMAIN s }

(* str.lower() / str.upper() on one character *)
LowerChar(c) ==
  IF \E i \in DOMAIN UpperChars : UpperChars[i] = c
  THEN LowerChars[CHOOSE i \in DOMAIN UpperChars : UpperChars[i] = c]
  ELSE c
UpperChar(c) ==
  IF \E i \in DOMAIN LowerChars : LowerChars[i] = c
  THEN UpperChars[CHOOSE i \in DOMAIN LowerChars : LowerChars[i] = c]
  ELSE c
Lower(s) == [ i \in DOMAIN s |-> LowerChar(s[i]) ]
Upper(s) == [ i \in DOMAIN s |-> UpperChar(s[i]) ]

(* str.strip(): drop leading and trailing whitespace *)
RECURSIVE LStrip(_)
LStrip(s) == IF s # << >> /\ Head(s) \in Whitespace THEN LStrip(Tail(s)) ELSE s
RECURSIVE RStrip(_)
RStrip(s) ==
  IF s # << >> /\ s[Len(s)] \in Whitespace
  THEN RStrip(SubSeq(s, 1, Len(s) - 1)) ELSE s
Strip(s) == RStrip(LStrip(s))

(* str.replace(old, new) for single characters *)
ReplaceChar(s, old, new) == [ i \in DOMAIN s |-> IF s[i] = old THEN new ELSE s[i] ]

(* needle in hay, Python's substring test on str *)
IsSubstring(needle, hay) ==
  \E i \in 1..(Len(hay) - Len(needle) + 1) :
     SubSeq(hay, i, i + Len(needle) - 1) = needle

(* "\n".join(names) *)
RECURSIVE JoinLines(_)
JoinLines(names) ==
  IF names = << >> THEN << >>
  ELSE IF Len(names) = 1 THEN names[1]
  ELSE names[1] \o << "\n" >> \o JoinLines(Tail(names))

(* some order of a finite set, as a sequence *)
RECURSIVE SetToSeq(_)
SetToSeq(S) ==
  IF S = {} THEN << >>
  ELSE LET x == CHOOSE y \in S : TRUE IN << x >> \o SetToSeq(S \ {x})

----------------------------------------------------------------------------
(* Alias derivation of the provisioning procedure.                         *)

IsAliasChar(c) == c \in Range(LowerChars) \/ c \in DigitChars

(* re.sub(r'[^a-z0-9]', '_', s) *)
SubNonAlnum(s) == [ i \in DOMAIN s |-> IF IsAliasChar(s[i]) THEN s[i] ELSE "_" ]

GithubPrefix == << "g","i","t","h","u","b","-" >>

(* alias = "github-" + re.sub(r'[^a-z0-9]', '_', account_type.lower().strip()) *)
Alias(account_type) == GithubPrefix \o SubNonAlnum(Strip(Lower(account_type)))

(* a variable name built from the label alone: GITHUB_<LABEL>_TOKEN *)
TokenEnvVarOfLabel(alias) ==
  << "G","I","T","H","U","B","_" >>
     \o Upper(SubSeq(alias, Len(GithubPrefix) + 1, Len(alias)))
     \o << "_","T","O","K","E","N" >>
(* f"GITHUB_{alias.upper().replace('-', '_')}_TOKEN" *)
TokenEnvVar(alias) ==
  << "G","I","T","H","U","B","_" >> \o ReplaceChar(Upper(alias), "-", "_")
     \o << "_","T","O","K","E","N" >>

(* re.fullmatch(r'github-[a-z0-9_]+', alias) *)
MatchesAliasPattern(alias) ==
  /\ Len(alias) > Len(GithubPrefix)
  /\ SubSeq(alias, 1, Len(GithubPrefix)) = GithubPrefix
  /\ \A i \in (Len(GithubPrefix) + 1)..Len(alias) :
        IsAliasChar(alias[i]) \/ alias[i] = "_"

----------------------------------------------------------------------------
(* Account records (the dictionaries of accounts.json) and the files of    *)
(* ~/.ssh.  A record is a function on the keys it has; a key the           *)
(* dictionary lacks is not in its DOMAIN.                                  *)

HasKey(d, k) == k \in DOMAIN d
(* dict.get(k, default) *)
Get(d, k, default) == IF HasKey(d, k) THEN d[k] ELSE default
(* the dictionary without key k *)
Without(d, k) == [ x \in (DOMAIN d) \ {k} |-> d[x] ]

None == << "<None>" >>
NoAccount == [ none |-> TRUE ]
EmptyStr == << >>

(* accounts_data.append({...}) *)
AccountRecord(account_type, email, username, local_username) ==
  [ id           |-> Alias(account_type),
    name         |-> account_type,
    sshAlias     |-> Alias(account_type),
    githubUser   |-> username,
    email        |-> email,
    localGitUser |-> local_username,
    tokenEnvVar  |-> TokenEnvVar(Alias(account_type)) ]

AccWork == AccountRecord(<< "w","o","r","k" >>, << "alice@work.example" >>, << "alice-corp" >>, << "Alice" >>)
AccHome == AccountRecord(<< "h","o","m","e" >>, << "alice@home.example" >>, << "alice" >>, << "alice" >>)
(* a record of an older format: 'username' instead of 'githubUser' *)
AccLegacy == [ x \in ((DOMAIN AccHome) \ {"githubUser"}) \cup {"username"} |->
                 IF x = "username" THEN AccHome.githubUser ELSE AccHome[x] ]

FileAbsent == [ state |-> "absent", data |-> << >> ]
FileUnparsable == [ state |-> "unparsable", data |-> << >> ]
FileOf(records) == [ state |-> "ok", data |-> records ]

(* contents of accounts.json the program may find at start *)
AccountFiles ==
  { FileAbsent, FileUnparsable, FileOf(<< >>),
    FileOf(<< AccWork >>), FileOf(<< AccWork, AccHome >>), FileOf(<< AccLegacy >>),
    FileOf(<< Without(AccWork, "name") >>),
    FileOf(<< AccHome, Without(AccWork, "sshAlias") >>),
    FileOf(<< Without(AccWork, "email") >>),
    FileOf(<< Without(AccWork, "tokenEnvVar") >>) }

RequiredKeys == { "name", "sshAlias", "githubUser", "email", "tokenEnvVar" }
HasIncompleteRecord(file) ==
  /\ file.state = "ok"
  /\ \E i \in DOMAIN file.data : ~ (RequiredKeys \subseteq DOMAIN file.data[i])

(* the process environment is external like the working directory: a       *)
(* variable is fixed when it is first read; unset or empty is << >>        *)
SecretOf(var) == << "secret-of" >> \o var

----------------------------------------------------------------------------
VARIABLES
  pc,          \* control location of the process
  argv,        \* sys.argv[1], NoArg when absent
  disk,        \* ~/.ssh: accountsFile, sshConfig, keyFiles
  accounts,    \* self.accounts
  env,         \* os.environ: the variables read or set so far
  action, selected, account, github_user, ssh_alias, git_email, token,
               \* locals of GitGo.run
  out,         \* reports printed so far
  notice,      \* the rejection printed by the last step, "" if none
  fault,       \* the exception that left the top level, "none" otherwise
  exitCause,   \* why the process ended
  gitLog,      \* git command lines executed, in order
  httpLog,     \* HTTP requests sent, in order
  repo,        \* the working directory as seen through git
  repo0,       \* the working directory as the running handler found it
  loc,         \* locals of the running handler
  prov         \* locals of generate_github_ssh_keys_and_config

runVars == << action, selected, account, github_user, ssh_alias, git_email, token >>
worldVars == << disk, env, repo, repo0, gitLog, httpLog >>
vars == << pc, argv, disk, accounts, env, action, selected, account, github_user,
           ssh_alias, git_email, token, out, notice, fault, exitCause, gitLog, httpLog,
           repo, repo0, loc, prov >>

NoArg == "<none>"

(* GitGo.__init__ *)
valid_actions ==
  << "clone", "push", "pull", "adduser", "showuser", "addremote",
     "delremote", "remotelist", "status", "commit", "history", "tokeninfo", "setup",
     "branch", "remotem", "changename", "help" >>
(* str(i) for the menu numbers and the out-of-range neighbours *)
NumStr == [ i \in 0..18 |->
  << "0","1","2","3","4","5","6","7","8","9","10","11","12","13","14","15",
     "16","17","18" >>[i + 1] ]
numbered_actions == [ s \in { NumStr[i + 1] : i \in 0..(Len(valid_actions) - 1) } |->
  valid_actions[CHOOSE i \in 1..Len(valid_actions) : NumStr[i] = s] ]

(* load_github_accounts *)
load_github_accounts(file) == IF file.state = "ok" THEN file.data ELSE << >>
LoadMessages(file) ==
  IF file.state = "absent" THEN { "warn: no accounts file" }
  ELSE IF file.state = "unparsable" THEN { "warn: error loading accounts" }
  ELSE { }

(* run() has not read an action yet *)
NoAction == "<no action>"
NoRepo == [ cwd |-> << "." >> ]

(* gitgo = GitGo(); gitgo.run() is about to start *)
Init ==
  /\ pc = "run"
  /\ argv \in { NoArg, "--help", "setup", "ssh-setup" }
  /\ disk \in { [ accountsFile |-> f, sshConfig |-> << >>, keyFiles |-> << >> ] :
                  f \in AccountFiles }
  /\ accounts = load_github_accounts(disk.accountsFile)
  /\ env = << >>
  /\ action = NoAction /\ selected = NoAccount /\ account = None
  /\ github_user = None /\ ssh_alias = None /\ git_email = None /\ token = None
  /\ out = LoadMessages(disk.accountsFile) /\ notice = ""
  /\ fault = "none" /\ exitCause = "none"
  /\ gitLog = << >> /\ httpLog = << >>
  /\ repo = NoRepo /\ repo0 = NoRepo /\ loc = [ handler |-> "none" ] /\ prov = [ running |-> FALSE ]

(* an exception nobody catches: the traceback ends the process *)
Crash(exc) == pc' = "crashed" /\ fault' = exc /\ exitCause' = "fault"
(* sys.exit(0) *)
Exit(cause) == pc' = "exited" /\ exitCause' = cause /\ fault' = fault
Goto(l) == pc' = l /\ fault' = fault /\ exitCause' = exitCause
Say(msgs) == out' = out \cup msgs /\ notice' = ""
(* an input is rejected and the same prompt is shown again *)
Reprompt(msg) == pc' = pc /\ fault' = fault /\ exitCause' = exitCause
                 /\ out' = out /\ notice' = msg

(* GitGo.run, the command-line forms *)
Run ==
  /\ pc = "run"
  /\ IF argv = "--help" THEN Goto("run_return") /\ Say({ "help" })
     ELSE IF argv = "setup" THEN Goto("setup_menu") /\ Say({ })
     ELSE IF argv = "ssh-setup" THEN Goto("provision") /\ Say({ })
     ELSE Goto("get_action_input") /\ Say({ "menu" })
  /\ UNCHANGED << argv, accounts, runVars, worldVars, loc, prov >>

(* what the user may type at the action prompt, after strip().lower() *)

(* get_action_input *)
get_action_input ==
  /\ pc = "get_action_input"
  /\ \E user_input \in (Range(valid_actions) \cup { NumStr[i] : i \in 0..18 } \cup { "q", "", "remote" }) \cup { "^C" } :
       IF user_input = "^C" THEN
         Exit("interrupt") /\ Say({ "farewell" }) /\ UNCHANGED action
       ELSE IF user_input = "q" THEN
         Exit("q") /\ Say({ "farewell" }) /\ UNCHANGED action
       ELSE IF user_input \in Range(valid_actions) THEN
         Goto("account_setup") /\ action' = user_input /\ Say({ })
       ELSE IF user_input \in DOMAIN numbered_actions THEN
         Goto("account_setup") /\ action' = numbered_actions[user_input] /\ Say({ })
       ELSE
         Reprompt("invalid input") /\ UNCHANGED action
  /\ UNCHANGED << argv, accounts, selected, account, github_user, ssh_alias,
                  git_email, token, worldVars, loc, prov >>

NeedsAccount == { "clone", "push", "addremote", "delremote", "remotelist", "tokeninfo" }

(* run, "Handle account setup for relevant actions", up to the account     *)
(* prompt of select_github_account                                         *)
account_setup ==
  /\ pc = "account_setup"
  /\ IF action \in NeedsAccount THEN
       IF accounts = << >> THEN
         Goto("run_return") /\ Say({ "no accounts found" })
       ELSE IF \E i \in DOMAIN accounts :
                 ~ (HasKey(accounts[i], "name") /\ HasKey(accounts[i], "sshAlias")) THEN
         Crash("KeyError") /\ Say({ })
       ELSE
         Goto("select_github_account") /\ Say({ "account list" })
     ELSE
       Goto("dispatch") /\ Say({ })
  /\ UNCHANGED << argv, accounts, runVars, worldVars, loc, prov >>

(* os.environ.get(name): the values the variable may have *)
EnvObs(name) == IF name \in DOMAIN env THEN { env[name] } ELSE { EmptyStr, SecretOf(name) }
EnvPut(e, name, value) ==
  [ x \in (DOMAIN e) \cup { name } |-> IF x = name THEN value ELSE e[x] ]

(* a token check that accepts the empty value *)
TokenNeverMissing(value) == FALSE
(* get_github_token: "if not token" *)
TokenMissing(value) == value = EmptyStr

(* select_github_account, the choice loop, and the rest of the account     *)
(* setup of run once an account is returned                                *)
select_github_account ==
  /\ pc = "select_github_account"
  /\ \E choice \in (0..(Len(accounts) + 1)) \cup { -1 } :
       IF choice = -1 THEN  \* not a number
         Reprompt("enter a valid number") /\ UNCHANGED << runVars, env >>
       ELSE IF ~ (1 <= choice /\ choice <= Len(accounts)) THEN
         Reprompt("enter a number in range") /\ UNCHANGED << runVars, env >>
       ELSE LET acc == accounts[choice] IN
         /\ selected' = acc
         /\ action' = action
         /\ account' = acc.name
         /\ github_user' = Get(acc, "githubUser", Get(acc, "username", EmptyStr))
         /\ ssh_alias' = acc.sshAlias
         /\ IF ~ HasKey(acc, "email") THEN
              Crash("KeyError") /\ Say({ }) /\ UNCHANGED << git_email, token, env >>
            ELSE
              /\ git_email' = acc.email
              /\ IF ~ HasKey(acc, "tokenEnvVar") THEN
                   \* os.environ.get(None)
                   Crash("TypeError") /\ Say({ }) /\ UNCHANGED << token, env >>
                 ELSE \E value \in EnvObs(acc.tokenEnvVar) :
                   /\ env' = EnvPut(env, acc.tokenEnvVar, value)
                   /\ IF TokenMissing(value) THEN
                        /\ Goto("run_return") /\ UNCHANGED token
                        /\ Say({ "token not found", "missing token" })
                      ELSE
                        Goto("dispatch") /\ Say({ }) /\ token' = value
  /\ UNCHANGED << argv, accounts, disk, repo, repo0, gitLog, httpLog, loc, prov >>

(* safe_input: Ctrl-C at a prompt read through safe_input *)
SafeInputPrompts ==
  { "select_github_account",
    "push_confirm_dirty", "push_use_detected", "push_repo_name",
    "commit_add_choice", "commit_add_files", "commit_msg_choice", "commit_msg_custom",
    "commit_msg_template", "commit_amend_push", "commit_push",
    "history_num", "history_view", "adduser_prompt",
    "branch_menu", "branch_force", "handle_changename",
    "addremote_name", "addremote_details", "addremote_clone",
    "delremote_name", "delremote_confirm" }
safe_input_interrupt ==
  /\ pc \in SafeInputPrompts
  /\ Exit("interrupt") /\ Say({ "farewell" })
  /\ UNCHANGED << argv, accounts, runVars, worldVars, loc, prov >>

(* run() returns to the module level and the interpreter ends *)
RunReturn ==
  /\ pc = "run_return"
  /\ Exit("return") /\ Say({ })
  /\ UNCHANGED << argv, accounts, runVars, worldVars, loc, prov >>

----------------------------------------------------------------------------
(* The working directory and git.  The directory is external to the        *)
(* program: each property of it is fixed when a command first depends on   *)
(* it and changes afterwards only through the program's own commands.      *)
(* repo holds the properties fixed so far, repo0 their values as found.    *)

Origin == << "o","r","i","g","i","n" >>
Origin2 == << "o","r","i","g","i","n","2" >>

(* f"git@{ssh_alias}:{github_user}/{repo_name}.git" *)
RemoteUrl(alias, user, repo_name) ==
  << "git@" >> \o alias \o << ":" >> \o user \o << "/" >> \o repo_name \o << ".git" >>

RepoProj == << "p","r","o","j" >>
RepoOther == << "o","t","h","e","r" >>
UrlHttps == << "https://github.com", "/", "bob", "/" >> \o RepoOther \o << ".git" >>

(* re.search(r'/([^/]+?)(?:\.git)?$', remote_url): the group, << >> if no match *)
LastSlash(url) ==
  IF \E i \in DOMAIN url : url[i] = "/"
  THEN CHOOSE i \in DOMAIN url : url[i] = "/" /\ \A j \in (i + 1)..Len(url) : url[j] # "/"
  ELSE 0
DetectRepo(url) ==
  LET k == LastSlash(url)
      rest == SubSeq(url, k + 1, Len(url))
  IN IF k = 0 \/ rest = << >> THEN << >>
     ELSE IF Len(rest) >= 2 /\ rest[Len(rest)] = ".git"
          THEN SubSeq(rest, 1, Len(rest) - 1)
          ELSE rest

(* what the working directory may turn out to be *)
RemoteSets ==
  { r \in UNION { [ names -> { RemoteUrl(AccWork.sshAlias, AccWork.githubUser, RepoProj), UrlHttps } ] : names \in SUBSET { Origin, Origin2 } } :
      Origin2 \in DOMAIN r => r[Origin2] = UrlHttps }
Branches == { << "main" >>, EmptyStr }    \* << >>: detached HEAD
Trees == SUBSET { "untracked", "modified", "staged" }
UserNames == { EmptyStr, << "Dev Eloper" >> }
UserEmails == { EmptyStr, << "dev@example.org" >> }

(* the values property f may have: the known one, else any of S *)
Obs(f, S) == IF f \in DOMAIN repo THEN { repo[f] } ELSE S
Put(r, f, v) == [ x \in (DOMAIN r) \cup { f } |-> IF x = f THEN v ELSE r[x] ]
Found(r) == [ x \in DOMAIN r |-> IF x \in DOMAIN repo0 THEN repo0[x] ELSE r[x] ]
(* the directory after the step is after, having been found as r *)
See(r, after) == repo' = after /\ repo0' = Found(r)

(* stdout of 'git remote': the names, one per line *)
GitRemoteOutput(r) == JoinLines(SetToSeq(DOMAIN r))
(* 'git config --get remote.origin.url': << stdout, returncode >> *)
GitOriginUrl(r) == IF Origin \in DOMAIN r THEN << r[Origin], 0 >> ELSE << EmptyStr, 1 >>
(* 'git remote add origin url': fails when the name is taken *)
GitRemoteAdd(r, url) ==
  IF Origin \in DOMAIN r THEN r
  ELSE [ n \in (DOMAIN r) \cup { Origin } |-> IF n = Origin THEN url ELSE r[n] ]
(* 'git remote set-url origin url': fails when there is no such remote *)
GitRemoteSetUrl(r, url) ==
  IF Origin \in DOMAIN r THEN [ r EXCEPT ![Origin] = url ] ELSE r
(* 'git push origin <branch>' cannot succeed without a remote named origin *)
PushResults(r) == IF "remotes" \in DOMAIN r /\ Origin \notin DOMAIN r.remotes THEN { 1 } ELSE { 0, 1 }

Git(cmd, arg, rc) == [ cmd |-> cmd, arg |-> arg, rc |-> rc ]

(* get_valid_yes_no: what one answer leads to *)
YesNoInputs == { "y", "yes", "n", "no", "", "maybe" }
get_valid_yes_no(user_input, default_value) ==
  LET answer == IF user_input = "" /\ default_value # "" THEN default_value ELSE user_input
  IN IF answer \in { "y", "yes" } THEN "yes"
     ELSE IF answer \in { "n", "no" } THEN "no"
     ELSE "invalid"

----------------------------------------------------------------------------
(* handle_push                                                             *)

(* handle_push: repository and branch checks, uncommitted changes *)
handle_push ==
  /\ pc = "handle_push"
  /\ \E is_repo \in Obs("isRepo", BOOLEAN) :
       LET r1 == Put(repo, "isRepo", is_repo) IN
       IF ~ is_repo THEN
         /\ See(r1, r1) /\ Goto("run_return") /\ Say({ "not a git repository" })
         /\ gitLog' = gitLog /\ loc' = [ handler |-> "push" ]
       ELSE \E current_branch \in Obs("branch", Branches) :
         LET r2 == Put(r1, "branch", current_branch) IN
         IF current_branch = EmptyStr THEN
           /\ See(r2, r2) /\ Goto("run_return") /\ Say({ "unable to determine branch" })
           /\ gitLog' = gitLog \o << Git("branch --show-current", EmptyStr, 0) >>
           /\ loc' = [ handler |-> "push" ]
         ELSE \E tree \in Obs("tree", Trees) :
           LET r3 == Put(r2, "tree", tree) IN
           /\ See(r3, r3)
           /\ gitLog' = gitLog \o << Git("branch --show-current", EmptyStr, 0),
                                     Git("status --porcelain", EmptyStr, 0) >>
           /\ loc' = [ handler |-> "push", current_branch |-> current_branch,
                       repo_name |-> EmptyStr, detected_repo |-> EmptyStr ]
           /\ IF tree # { }
              THEN Goto("push_confirm_dirty") /\ Say({ "uncommitted changes" })
              ELSE Goto("push_detect_repo") /\ Say({ })
  /\ UNCHANGED << argv, accounts, runVars, disk, env, httpLog, prov >>

(* handle_push: "Continue pushing without committing these changes?" *)
push_confirm_dirty ==
  /\ pc = "push_confirm_dirty"
  /\ \E user_input \in YesNoInputs :
       LET answer == get_valid_yes_no(user_input, "") IN
       IF answer = "yes" THEN Goto("push_detect_repo") /\ Say({ })
       ELSE IF answer = "no" THEN Goto("run_return") /\ Say({ "push cancelled" })
       ELSE Reprompt("invalid yes/no")
  /\ UNCHANGED << argv, accounts, runVars, worldVars, loc, prov >>

(* handle_push: repository name detected from remote.origin.url *)
push_detect_repo ==
  /\ pc = "push_detect_repo"
  /\ \E remotes \in Obs("remotes", RemoteSets) :
       LET r == Put(repo, "remotes", remotes)
           res == GitOriginUrl(remotes)
           detected == IF res[2] = 0 /\ res[1] # EmptyStr THEN DetectRepo(res[1]) ELSE EmptyStr
       IN /\ See(r, r)
          /\ gitLog' = gitLog \o << Git("config --get remote.origin.url", EmptyStr, res[2]) >>
          /\ loc' = [ loc EXCEPT !.detected_repo = detected ]
          /\ IF detected # EmptyStr THEN Goto("push_use_detected") ELSE Goto("push_repo_name")
  /\ Say({ })
  /\ UNCHANGED << argv, accounts, runVars, disk, env, httpLog, prov >>

(* handle_push: "Use detected repository name ...?" (default y) *)
push_use_detected ==
  /\ pc = "push_use_detected"
  /\ \E user_input \in YesNoInputs :
       LET answer == get_valid_yes_no(user_input, "y") IN
       IF answer = "yes" THEN
         Goto("push_prepare") /\ Say({ }) /\ loc' = [ loc EXCEPT !.repo_name = loc.detected_repo ]
       ELSE IF answer = "no" THEN
         Goto("push_repo_name") /\ Say({ }) /\ UNCHANGED loc
       ELSE
         Reprompt("invalid yes/no") /\ UNCHANGED loc
  /\ UNCHANGED << argv, accounts, runVars, worldVars, prov >>

(* repository names the user may type, after strip() *)

(* handle_push: "Enter the repository name to push to: " *)
push_repo_name ==
  /\ pc = "push_repo_name"
  /\ \E name \in { RepoProj, RepoOther, EmptyStr } :
       Goto("push_prepare") /\ loc' = [ loc EXCEPT !.repo_name = name ]
  /\ Say({ })
  /\ UNCHANGED << argv, accounts, runVars, worldVars, prov >>

(* "Handle remote setup": 'origin' not in remotes is a test on the text     *)
(* that 'git remote' printed                                               *)
OriginInRemotes(r) == IsSubstring(Origin, GitRemoteOutput(r))

(* an identity check that takes every value for unset *)
AlwaysUnset(existing) == TRUE
(* if name_returncode != 0 or not existing_name.strip() *)
Unset(existing) == Strip(existing) = EmptyStr

(* handle_push: identity and remote setup, up to the upstream query *)
push_prepare ==
  /\ pc = "push_prepare"
  /\ \E existing_name \in Obs("userName", UserNames),
        existing_email \in Obs("userEmail", UserEmails),
        upstream_exists \in Obs("upstream", BOOLEAN) :
       LET r == Put(Put(Put(repo, "userName", existing_name), "userEmail", existing_email),
                    "upstream", upstream_exists)
           remote_url == RemoteUrl(ssh_alias, github_user, loc.repo_name)
           setName == Unset(existing_name)
           setEmail == Unset(existing_email)
           hasOrigin == OriginInRemotes(r.remotes)
           existing_url == GitOriginUrl(r.remotes)
           setUrl == hasOrigin /\ existing_url[1] # remote_url
           addOk == Origin \notin DOMAIN r.remotes
           setUrlOk == Origin \in DOMAIN r.remotes
       IN /\ See(r, [ r EXCEPT
                        !.userName = IF setName THEN github_user ELSE @,
                        !.userEmail = IF setEmail THEN git_email ELSE @,
                        !.remotes = IF ~ hasOrigin THEN GitRemoteAdd(@, remote_url)
                                    ELSE IF setUrl THEN GitRemoteSetUrl(@, remote_url)
                                    ELSE @ ])
          /\ gitLog' = gitLog
               \o << Git("config user.name", EmptyStr, IF setName THEN 1 ELSE 0) >>
               \o (IF setName THEN << Git("config user.name <value>", github_user, 0) >> ELSE << >>)
               \o << Git("config user.email", EmptyStr, IF setEmail THEN 1 ELSE 0) >>
               \o (IF setEmail THEN << Git("config user.email <value>", git_email, 0) >> ELSE << >>)
               \o << Git("remote", EmptyStr, 0) >>
               \o (IF ~ hasOrigin
                   THEN << Git("remote add origin", remote_url, IF addOk THEN 0 ELSE 3) >>
                   ELSE << Git("config --get remote.origin.url", EmptyStr, existing_url[2]) >>
                        \o (IF setUrl
                            THEN << Git("remote set-url origin", remote_url,
                                        IF setUrlOk THEN 0 ELSE 2) >>
                            ELSE << >>))
               \o << Git("rev-parse @{upstream}", loc.current_branch,
                         IF upstream_exists THEN 0 ELSE 128) >>
          /\ Say((IF ~ hasOrigin THEN { "remote origin added" } ELSE { })
                 \cup (IF setUrl THEN { "remote origin updated" } ELSE { }))
  /\ Goto("push_issue")
  /\ UNCHANGED << argv, accounts, runVars, disk, env, httpLog, loc, prov >>

(* handle_push: the push itself; its result depends on the remote side *)
push_issue ==
  /\ pc = "push_issue"
  /\ \E rc \in PushResults(repo) :
       /\ gitLog' = gitLog \o << Git(IF repo.upstream THEN "push origin" ELSE "push -u origin",
                                     loc.current_branch, rc) >>
       /\ See(repo, [ repo EXCEPT !.upstream = IF rc = 0 THEN TRUE ELSE @ ])
       /\ Say(IF rc = 0 THEN { "push complete" } ELSE { "error during push" })
  /\ Goto("run_return")
  /\ UNCHANGED << argv, accounts, runVars, disk, env, httpLog, loc, prov >>

----------------------------------------------------------------------------
(* invoke_git_commit                                                       *)

AddCommands == { "add .", "add -u", "add <file>", "add -p" }

(* invoke_git_commit without its "No changes to commit" return *)
TreeCheckSkipped(tree) == FALSE
(* the working-tree check at the head of invoke_git_commit: stdout of      *)
(* 'git status --porcelain' is empty                                       *)
TreeIsClean(tree) == tree = { }

(* invoke_git_commit: repository check and "Current repository status" *)
invoke_git_commit ==
  /\ pc = "invoke_git_commit"
  /\ \E is_repo \in Obs("isRepo", BOOLEAN) :
       LET r1 == Put(repo, "isRepo", is_repo) IN
       IF ~ is_repo THEN
         /\ See(r1, r1) /\ Goto("run_return") /\ Say({ "not a git repository" })
         /\ gitLog' = gitLog
       ELSE \E tree \in Obs("tree", Trees) :
         LET r2 == Put(r1, "tree", tree) IN
         /\ See(r2, r2)
         /\ gitLog' = gitLog \o << Git("status --porcelain", EmptyStr, 0) >>
         /\ IF TreeIsClean(tree)
            THEN Goto("run_return") /\ Say({ "working tree clean" })
            ELSE Goto("commit_add_choice") /\ Say({ "changes detected" })
  /\ loc' = [ handler |-> "commit", add_action |-> "", commit_msg |-> EmptyStr,
              current_branch |-> EmptyStr, user_input |-> "" ]
  /\ UNCHANGED << argv, accounts, runVars, disk, env, httpLog, prov >>

(* staging: what 'git add' of each kind does to the tree *)
Stage(tree, kinds) ==
  IF tree \cap kinds = { } THEN tree ELSE (tree \ kinds) \cup { "staged" }

(* the staging loop followed by the message menu whatever is staged *)
StagedCheckSkipped(tree) == Goto("commit_msg_choice") /\ Say({ "files staged" })
(* after the staging loop: "Check if anything was actually staged" *)
CheckStaged(tree) ==
  IF "staged" \in tree
  THEN Goto("commit_msg_choice") /\ Say({ "files staged" })
  ELSE Goto("run_return") /\ Say({ "no changes staged" })
DiffCached == Git("diff --cached --name-only", EmptyStr, 0)

(* invoke_git_commit: "Enter your choice (1-4): " *)
commit_add_choice ==
  /\ pc = "commit_add_choice"
  /\ \E add_choice \in { "1", "2", "3", "4", "5", "" } :
       IF add_choice = "1" THEN
         LET t == Stage(repo.tree, { "untracked", "modified" }) IN
         /\ See(repo, [ repo EXCEPT !.tree = t ]) /\ CheckStaged(t)
         /\ gitLog' = gitLog \o << Git("add .", EmptyStr, 0), DiffCached >>
         /\ loc' = [ loc EXCEPT !.add_action = "all changes" ]
       ELSE IF add_choice = "2" THEN
         LET t == Stage(repo.tree, { "modified" }) IN
         /\ See(repo, [ repo EXCEPT !.tree = t ]) /\ CheckStaged(t)
         /\ gitLog' = gitLog \o << Git("add -u", EmptyStr, 0), DiffCached >>
         /\ loc' = [ loc EXCEPT !.add_action = "all tracked files" ]
       ELSE IF add_choice = "3" THEN
         /\ Goto("commit_add_files") /\ Say({ })
         /\ UNCHANGED << repo, repo0, gitLog, loc >>
       ELSE IF add_choice = "4" THEN
         \* git add -p: the user stages all hunks of the modified files, some, or none
         \E t \in { repo.tree, Stage(repo.tree, { "modified" }),
                    Stage(repo.tree, { "modified" }) \cup (repo.tree \cap { "modified" }) } :
           /\ See(repo, [ repo EXCEPT !.tree = t ]) /\ CheckStaged(t)
           /\ gitLog' = gitLog \o << Git("add -p", EmptyStr, 0), DiffCached >>
           /\ loc' = [ loc EXCEPT !.add_action = "interactive selection" ]
       ELSE
         /\ Reprompt("invalid choice")
         /\ UNCHANGED << repo, repo0, gitLog, loc >>
  /\ UNCHANGED << argv, accounts, runVars, disk, env, httpLog, prov >>

(* file lists the user may type: kinds of path *)
FileInputs == { { }, { "untracked" }, { "modified" }, { "no such file" },
                { "untracked", "modified" } }

(* invoke_git_commit: "Enter file paths separated by spaces: " *)
commit_add_files ==
  /\ pc = "commit_add_files"
  /\ \E files \in FileInputs :
       IF files = { } THEN
         /\ Goto("commit_add_choice") /\ out' = out /\ notice' = "no files specified"
         /\ UNCHANGED << repo, repo0, gitLog, loc >>
       ELSE
         LET t == Stage(repo.tree, files)
             file_list == SetToSeq(files)
             adds == [ i \in DOMAIN file_list |->
                         Git("add <file>", << file_list[i] >>,
                             IF file_list[i] \in repo.tree THEN 0 ELSE 128) ]
         IN /\ See(repo, [ repo EXCEPT !.tree = t ]) /\ CheckStaged(t)
            /\ gitLog' = gitLog \o adds \o << DiffCached >>
            /\ loc' = [ loc EXCEPT !.add_action = "specified files" ]
  /\ UNCHANGED << argv, accounts, runVars, disk, env, httpLog, prov >>

(* invoke_git_commit: "Commit message options", "Enter your choice (1-3): " *)
commit_msg_choice ==
  /\ pc = "commit_msg_choice"
  /\ \E msg_choice \in { "1", "2", "3", "4", "" } :
       IF msg_choice = "1" THEN
         Goto("commit_msg_custom") /\ Say({ }) /\ UNCHANGED << repo, repo0, gitLog, loc >>
       ELSE IF msg_choice = "2" THEN
         Goto("commit_msg_template") /\ Say({ }) /\ UNCHANGED << repo, repo0, gitLog, loc >>
       ELSE IF msg_choice = "3" THEN
         \* git commit --amend runs in the terminal; its exit code is not looked at
         \E rc \in { 0, 1 }, current_branch \in Obs("branch", Branches) :
           LET r == Put(repo, "branch", current_branch) IN
           /\ gitLog' = gitLog \o << Git("commit --amend", EmptyStr, rc),
                                     Git("branch --show-current", EmptyStr, 0) >>
           /\ See(r, [ r EXCEPT !.tree = IF rc = 0 THEN @ \ { "staged" } ELSE @ ])
           /\ loc' = [ loc EXCEPT !.current_branch = current_branch ]
           /\ Say({ "commit amended" })
           /\ IF current_branch # EmptyStr THEN Goto("commit_amend_push") ELSE Goto("run_return")
       ELSE
         /\ Reprompt("invalid choice")
         /\ UNCHANGED << repo, repo0, gitLog, loc >>
  /\ UNCHANGED << argv, accounts, runVars, disk, env, httpLog, prov >>

(* invoke_git_commit: "Enter your commit message: " *)
commit_msg_custom ==
  /\ pc = "commit_msg_custom"
  /\ \E commit_msg \in { EmptyStr, << "fix typo" >> } :
       IF commit_msg # EmptyStr THEN
         Goto("commit_perform") /\ Say({ }) /\ loc' = [ loc EXCEPT !.commit_msg = commit_msg ]
       ELSE
         /\ Goto("commit_msg_choice") /\ out' = out /\ notice' = "message cannot be empty"
         /\ UNCHANGED loc
  /\ UNCHANGED << argv, accounts, runVars, worldVars, prov >>

templates ==
  [ k \in { "1", "2", "3", "4", "5", "6", "7" } |->
      CASE k = "1" -> << "feat: " >> [] k = "2" -> << "fix: " >> [] k = "3" -> << "docs: " >>
        [] k = "4" -> << "style: " >> [] k = "5" -> << "refactor: " >>
        [] k = "6" -> << "test: " >> [] k = "7" -> << "chore: " >> ]

(* invoke_git_commit: "Select template (1-7): " and "Complete the message" *)
commit_msg_template ==
  /\ pc = "commit_msg_template"
  /\ \E template_choice \in { "2", "8", "" } :
       IF template_choice \in DOMAIN templates THEN
         \E custom_part \in { EmptyStr, << "typo" >> } :
           /\ Goto("commit_perform") /\ Say({ })
           /\ loc' = [ loc EXCEPT !.commit_msg = templates[template_choice] \o custom_part ]
       ELSE
         /\ Goto("commit_msg_choice") /\ out' = out /\ notice' = "invalid template"
         /\ UNCHANGED loc
  /\ UNCHANGED << argv, accounts, runVars, worldVars, prov >>

(* invoke_git_commit, amend path: "Push amended commit ...?" *)
commit_amend_push ==
  /\ pc = "commit_amend_push"
  /\ \E user_input \in YesNoInputs :
       LET answer == get_valid_yes_no(user_input, "") IN
       IF answer = "yes" THEN
         \E rc \in PushResults(repo) :
           /\ gitLog' = gitLog \o << Git("push origin --force-with-lease", loc.current_branch, rc) >>
           /\ loc' = [ loc EXCEPT !.user_input = user_input ]
           /\ Goto("run_return") /\ Say({ "amended commit pushed" })
       ELSE IF answer = "no" THEN
         /\ Goto("run_return") /\ Say({ }) /\ UNCHANGED gitLog
         /\ loc' = [ loc EXCEPT !.user_input = user_input ]
       ELSE
         Reprompt("invalid yes/no") /\ UNCHANGED << gitLog, loc >>
  /\ UNCHANGED << argv, accounts, runVars, disk, env, repo, repo0, httpLog, prov >>

(* invoke_git_commit: "Perform the commit" up to the push question *)
commit_perform ==
  /\ pc = "commit_perform"
  /\ \E rc \in { 0, 1 }, current_branch \in Obs("branch", Branches) :
       LET r == Put(repo, "branch", current_branch) IN
       /\ gitLog' = gitLog \o << Git("commit -m", loc.commit_msg, rc),
                                 Git("rev-parse --short HEAD", EmptyStr, 0),
                                 Git("branch --show-current", EmptyStr, 0) >>
       /\ See(r, [ r EXCEPT !.tree = IF rc = 0 THEN @ \ { "staged" } ELSE @ ])
       /\ loc' = [ loc EXCEPT !.current_branch = current_branch ]
       /\ IF current_branch # EmptyStr THEN Goto("commit_push") ELSE Goto("run_return")
  /\ Say({ "commit successful" })
  /\ UNCHANGED << argv, accounts, runVars, disk, env, httpLog, prov >>

(* invoke_git_commit: "Push commit to origin/<branch>?" *)
commit_push ==
  /\ pc = "commit_push"
  /\ \E user_input \in YesNoInputs :
       LET answer == get_valid_yes_no(user_input, "") IN
       IF answer = "yes" THEN
         \E rc \in PushResults(repo), upstream_exists \in Obs("upstream", BOOLEAN) :
           LET r == Put(repo, "upstream", upstream_exists) IN
           /\ gitLog' = gitLog
                \o << Git("rev-parse @{upstream}", loc.current_branch,
                          IF upstream_exists THEN 0 ELSE 128),
                      Git(IF upstream_exists THEN "push origin" ELSE "push -u origin",
                          loc.current_branch, rc) >>
           /\ See(r, [ r EXCEPT !.upstream = IF rc = 0 THEN TRUE ELSE @ ])
           /\ Goto("run_return") /\ Say({ "changes pushed" })
       ELSE IF answer = "no" THEN
         Goto("run_return") /\ Say({ }) /\ UNCHANGED << gitLog, repo, repo0 >>
       ELSE
         Reprompt("invalid yes/no") /\ UNCHANGED << gitLog, repo, repo0 >>
  /\ UNCHANGED << argv, accounts, runVars, disk, env, httpLog, loc, prov >>

----------------------------------------------------------------------------
(* GitGo.run: "Execute the selected action"                                *)

(* the handler each branch of the if/elif chain calls; remotem has none *)
HandlerOf ==
  [ a \in Range(valid_actions) \ { "remotem" } |->
      CASE a = "setup" -> "setup_menu"
        [] a = "clone" -> "handle_clone"
        [] a = "push" -> "handle_push"
        [] a = "pull" -> "handle_pull"
        [] a = "adduser" -> "handle_adduser"
        [] a = "showuser" -> "handle_showuser"
        [] a = "addremote" -> "handle_addremote"
        [] a = "delremote" -> "handle_delremote"
        [] a = "remotelist" -> "handle_remotelist"
        [] a = "status" -> "get_git_repository_info"
        [] a = "commit" -> "invoke_git_commit"
        [] a = "history" -> "show_git_history"
        [] a = "tokeninfo" -> "tokeninfo"
        [] a = "branch" -> "handle_branch"
        [] a = "changename" -> "handle_changename"
        [] a = "help" -> "handle_help" ]

(* the call each branch makes: the branch of an action without elif falls  *)
(* through to the final else                                               *)
dispatch ==
  /\ pc = "dispatch"
  /\ IF action \notin DOMAIN HandlerOf THEN
       Goto("run_return") /\ Say({ "invalid action" })
     ELSE IF action = "clone" THEN
       \* handle_clone(self, github_user, ssh_alias, git_email) called with
       \* (account, github_user, ssh_alias, git_email)
       Crash("TypeError") /\ Say({ })
     ELSE IF action = "tokeninfo" THEN
       \* self.get_github_token(account): account is the account's name, a str
       Crash("AttributeError") /\ Say({ "token information" })
     ELSE
       Goto(HandlerOf[action]) /\ Say({ })
  /\ UNCHANGED << argv, accounts, runVars, worldVars, loc, prov >>

(* handle_help *)
handle_help ==
  /\ pc = "handle_help"
  /\ Goto("run_return") /\ Say({ "help" })
  /\ loc' = [ handler |-> "help" ]
  /\ UNCHANGED << argv, accounts, runVars, worldVars, prov >>

----------------------------------------------------------------------------
(* handle_showuser (the second definition, which replaces the first),      *)
(* get_git_repository_info                                                 *)

handle_showuser ==
  /\ pc = "handle_showuser"
  /\ \E is_repo \in Obs("isRepo", BOOLEAN), name \in Obs("userName", UserNames),
        email \in Obs("userEmail", UserEmails) :
       LET r == Put(Put(Put(repo, "isRepo", is_repo), "userName", name), "userEmail", email)
       IN /\ See(r, r)
          /\ gitLog' = gitLog \o << Git("config user.name", EmptyStr, IF name = EmptyStr THEN 1 ELSE 0),
                                    Git("config user.email", EmptyStr, IF email = EmptyStr THEN 1 ELSE 0),
                                    Git("config --global user.name", EmptyStr, 0),
                                    Git("config --global user.email", EmptyStr, 0) >>
          /\ Say({ "git identity" })
  /\ Goto("run_return")
  /\ loc' = [ handler |-> "showuser" ]
  /\ UNCHANGED << argv, accounts, runVars, disk, env, httpLog, prov >>

get_git_repository_info ==
  /\ pc = "get_git_repository_info"
  /\ \E is_repo \in Obs("isRepo", BOOLEAN) :
       LET r1 == Put(repo, "isRepo", is_repo) IN
       IF ~ is_repo THEN
         /\ See(r1, r1) /\ Say({ "not a git repository" }) /\ gitLog' = gitLog
       ELSE \E b \in Obs("branch", Branches), tree \in Obs("tree", Trees) :
         LET r2 == Put(Put(r1, "branch", b), "tree", tree) IN
         /\ See(r2, r2) /\ Say({ "repository info" })
         /\ gitLog' = gitLog \o << Git("branch --show-current", EmptyStr, 0),
                                   Git("config user.name", EmptyStr, 0),
                                   Git("config user.email", EmptyStr, 0),
                                   Git("remote -v", EmptyStr, 0),
                                   Git("status --porcelain", EmptyStr, 0),
                                   Git("log --oneline -3", EmptyStr, 0) >>
  /\ Goto("run_return")
  /\ loc' = [ handler |-> "status" ]
  /\ UNCHANGED << argv, accounts, runVars, disk, env, httpLog, prov >>

----------------------------------------------------------------------------
(* int(text): << TRUE, value >>, or << FALSE, 0 >> for a ValueError         *)

RECURSIVE DigitsValue(_)
DigitsValue(s) ==
  IF s = << >> THEN 0 ELSE DigitsValue(SubSeq(s, 1, Len(s) - 1)) * 10
       + (CHOOSE d \in 0..9 : << "0","1","2","3","4","5","6","7","8","9" >>[d + 1] = s[Len(s)])
ParseInt(text) ==
  LET t == Strip(text)
      signed == t # << >> /\ t[1] \in { "+", "-" }
      digits == IF signed THEN Tail(t) ELSE t
  IN IF digits # << >> /\ \A i \in DOMAIN digits : digits[i] \in DigitChars
     THEN << TRUE, IF signed /\ t[1] = "-" THEN 0 - DigitsValue(digits) ELSE DigitsValue(digits) >>
     ELSE << FALSE, 0 >>

----------------------------------------------------------------------------
(* show_git_history                                                        *)

show_git_history ==
  /\ pc = "show_git_history"
  /\ \E is_repo \in Obs("isRepo", BOOLEAN) :
       LET r1 == Put(repo, "isRepo", is_repo) IN
       IF ~ is_repo THEN
         /\ See(r1, r1) /\ Say({ "not a git repository" }) /\ gitLog' = gitLog
         /\ Goto("run_return")
       ELSE \E b \in Obs("branch", Branches) :
         LET r2 == Put(r1, "branch", b) IN
         /\ See(r2, r2) /\ Say({ "commit history" })
         /\ gitLog' = gitLog \o << Git("branch --show-current", EmptyStr, 0) >>
         /\ Goto("history_num")
  /\ loc' = [ handler |-> "history", num_commits |-> 0 ]
  /\ UNCHANGED << argv, accounts, runVars, disk, env, httpLog, prov >>

MaxHistory == 50
DefaultHistory == 10
HistoryInputs == { << >>, << " " >>, << "0" >>, << "1" >>, << "5","0" >>, << "5","1" >>, << "t","e","n" >> }

(* show_git_history: "How many commits to show?", then the log *)
history_num ==
  /\ pc = "history_num"
  /\ \E typed \in HistoryInputs :
       LET text == Strip(typed)
           parsed == ParseInt(text)
           n == IF text = << >> THEN DefaultHistory ELSE parsed[2]
       IN IF text # << >> /\ ~ parsed[1] THEN
            Reprompt("enter a valid number") /\ UNCHANGED << gitLog, loc >>
          ELSE IF text # << >> /\ ~ (1 <= n /\ n <= MaxHistory) THEN
            Reprompt("enter a number in range") /\ UNCHANGED << gitLog, loc >>
          ELSE \E hasCommits \in BOOLEAN :
            /\ loc' = [ loc EXCEPT !.num_commits = n ]
            /\ gitLog' = gitLog \o << Git("log --oneline --graph", EmptyStr,
                                          IF hasCommits THEN 0 ELSE 128) >>
            /\ IF hasCommits THEN Goto("history_view") /\ Say({ "commits listed" })
               ELSE Goto("run_return") /\ Say({ "no commits found" })
  /\ UNCHANGED << argv, accounts, runVars, disk, env, repo, repo0, httpLog, prov >>

(* show_git_history: "View options" *)
history_view ==
  /\ pc = "history_view"
  /\ \E view_choice \in { "1", "2", "3", "4", "" }, commit_hash \in { EmptyStr, << "abc123" >> } :
       /\ view_choice # "2" => commit_hash = EmptyStr
       /\ gitLog' = gitLog \o
            (IF view_choice = "1" THEN << Git("log --stat", EmptyStr, 0) >>
             ELSE IF view_choice = "2" /\ commit_hash # EmptyStr
               THEN << Git("show --stat", commit_hash, 0) >>
             ELSE IF view_choice = "3" THEN << Git("shortlog -sn", EmptyStr, 0) >>
             ELSE << >>)
  /\ Goto("run_return") /\ Say({ })
  /\ UNCHANGED << argv, accounts, runVars, disk, env, repo, repo0, httpLog, loc, prov >>

----------------------------------------------------------------------------
(* handle_adduser                                                          *)

(* re.match(r'^[^\s@]+@[^\s@]+\.[^\s@]+$', text) *)
EmailMatches(text) ==
  \E i \in DOMAIN text, j \in DOMAIN text :
    /\ text[i] = "@" /\ text[j] = "."
    /\ 1 < i /\ i + 1 < j /\ j < Len(text)
    /\ \A k \in DOMAIN text : k # i => (text[k] # "@" /\ text[k] \notin Whitespace)

EmailInputs == { << "a","@","b",".","c" >>, << " ","a","@","b",".","c" >>, << "a","@","b" >>, << >>,
                 << "a"," ","@","b",".","c" >>, << "a","@","b",".","c",".","d" >> }

(* handle_adduser: the repository check; a missing repository is created *)
handle_adduser ==
  /\ pc = "handle_adduser"
  /\ \E is_repo \in Obs("isRepo", BOOLEAN) :
       LET r == Put(repo, "isRepo", is_repo) IN
       /\ See(r, [ r EXCEPT !.isRepo = TRUE ])
       /\ gitLog' = gitLog \o (IF is_repo THEN << >> ELSE << Git("init", EmptyStr, 0) >>)
       /\ Say(IF is_repo THEN { } ELSE { "repository initialized" })
  /\ Goto("adduser_prompt")
  /\ loc' = [ handler |-> "adduser" ]
  /\ UNCHANGED << argv, accounts, runVars, disk, env, httpLog, prov >>

(* handle_adduser: "Enter the Git username to set", "Enter the Git email to set" *)
adduser_prompt ==
  /\ pc = "adduser_prompt"
  /\ \E custom_name \in { << "Dev Eloper" >> }, typed \in EmailInputs :
       LET custom_email == Strip(typed) IN
       IF EmailMatches(custom_email) THEN
         /\ See(repo, Put(Put(repo, "userName", custom_name), "userEmail", custom_email))
         /\ gitLog' = gitLog \o << Git("config user.name <value>", custom_name, 0),
                                   Git("config user.email <value>", custom_email, 0) >>
         /\ Say({ "git identity configured" })
       ELSE
         /\ UNCHANGED << repo, repo0, gitLog >>
         /\ Say({ "invalid email format" })
  /\ Goto("run_return")
  /\ UNCHANGED << argv, accounts, runVars, disk, env, httpLog, loc, prov >>

----------------------------------------------------------------------------
(* handle_pull                                                             *)

(* handle_pull: repository, branch and working-tree checks *)
handle_pull ==
  /\ pc = "handle_pull"
  /\ \E is_repo \in Obs("isRepo", BOOLEAN) :
       LET r1 == Put(repo, "isRepo", is_repo) IN
       IF ~ is_repo THEN
         /\ See(r1, r1) /\ Goto("run_return") /\ Say({ "not a git repository" })
         /\ gitLog' = gitLog
       ELSE \E current_branch \in Obs("branch", Branches) :
         LET r2 == Put(r1, "branch", current_branch) IN
         IF current_branch = EmptyStr THEN
           /\ See(r2, r2) /\ Goto("run_return") /\ Say({ "unable to determine branch" })
           /\ gitLog' = gitLog \o << Git("branch --show-current", EmptyStr, 0) >>
         ELSE \E tree \in Obs("tree", Trees) :
           LET r3 == Put(r2, "tree", tree) IN
           /\ See(r3, r3)
           /\ gitLog' = gitLog \o << Git("branch --show-current", EmptyStr, 0),
                                     Git("status --porcelain", EmptyStr, 0) >>
           /\ IF tree # { }
              THEN Goto("pull_choice") /\ Say({ "uncommitted changes" })
              ELSE Goto("pull_run") /\ Say({ })
  /\ loc' = [ handler |-> "pull", should_pop_stash |-> FALSE, pull_choice |-> "" ]
  /\ UNCHANGED << argv, accounts, runVars, disk, env, httpLog, prov >>

(* 'git stash push' saves tracked changes only: << tree after, entries added >> *)
StashPush(tree, rc) ==
  IF rc = 0 /\ tree \cap { "modified", "staged" } # { }
  THEN << tree \cap { "untracked" }, 1 >>
  ELSE << tree, 0 >>

(* a choice test that takes every answer for the stash option *)
StashAlways(choice) == TRUE
(* if pull_choice == "1" *)
StashChosen(choice) == choice = "1"

(* handle_pull: "Enter your choice (1-3): ", read with input() *)
pull_choice ==
  /\ pc = "pull_choice"
  /\ \E pull_choice_input \in { "1", "2", "3", "4", "", "^C" } :
       IF pull_choice_input = "^C" THEN
         Crash("KeyboardInterrupt") /\ Say({ }) /\ UNCHANGED << repo, repo0, gitLog, loc >>
       ELSE IF StashChosen(pull_choice_input) THEN
         \E rc \in { 0, 1 }, stash \in Obs("stash", { 0, 1 }) :
           LET r == Put(repo, "stash", stash)
               res == StashPush(r.tree, rc)
           IN /\ See(r, [ r EXCEPT !.tree = res[1], !.stash = @ + res[2] ])
              /\ gitLog' = gitLog \o << Git("stash push", EmptyStr, rc) >>
              /\ loc' = [ loc EXCEPT !.should_pop_stash = TRUE, !.pull_choice = pull_choice_input ]
              /\ Goto("pull_run") /\ Say({ "stashing changes" })
       ELSE IF pull_choice_input = "2" THEN
         /\ Goto("pull_run") /\ Say({ "continuing with uncommitted changes" })
         /\ loc' = [ loc EXCEPT !.pull_choice = pull_choice_input ]
         /\ UNCHANGED << repo, repo0, gitLog >>
       ELSE IF pull_choice_input = "3" THEN
         /\ Goto("run_return") /\ Say({ "pull cancelled" })
         /\ loc' = [ loc EXCEPT !.pull_choice = pull_choice_input ]
         /\ UNCHANGED << repo, repo0, gitLog >>
       ELSE
         Reprompt("invalid choice") /\ UNCHANGED << repo, repo0, gitLog, loc >>
  /\ UNCHANGED << argv, accounts, runVars, disk, env, httpLog, prov >>

(* a pull whose failure goes unnoticed *)
PullNeverFails(rc) == FALSE
(* subprocess.run(..., check=True) raises CalledProcessError *)
PullFailed(rc) == rc # 0

(* handle_pull: the pull and, after a successful pull, the stash restore *)
pull_run ==
  /\ pc = "pull_run"
  /\ \E upstream_exists \in Obs("upstream", BOOLEAN), rc \in { 0, 1 } :
       LET r == Put(repo, "upstream", upstream_exists)
           query == Git("rev-parse @{upstream}", EmptyStr, IF upstream_exists THEN 0 ELSE 128)
           pull == Git(IF upstream_exists THEN "pull" ELSE "pull origin", EmptyStr, rc)
       IN IF PullFailed(rc) THEN
            /\ See(r, r) /\ gitLog' = gitLog \o << query, pull >>
            /\ Say({ "pull encountered issues" }
                   \cup (IF loc.should_pop_stash THEN { "changes are safely stashed" } ELSE { }))
          ELSE IF ~ loc.should_pop_stash THEN
            /\ See(r, r) /\ gitLog' = gitLog \o << query, pull >>
            /\ Say({ "pull complete" })
          ELSE \E poprc \in { 0, 1 } :
            /\ poprc = 0 => r.stash > 0
            /\ See(r, IF poprc = 0
                      THEN [ r EXCEPT !.stash = @ - 1, !.tree = @ \cup { "modified" } ]
                      ELSE r)
            /\ gitLog' = gitLog \o << query, pull, Git("stash pop", EmptyStr, poprc) >>
            /\ Say({ "pull complete" } \cup
                   (IF poprc = 0 THEN { "stash restored" } ELSE { "conflict restoring stash" }))
  /\ Goto("run_return")
  /\ UNCHANGED << argv, accounts, runVars, disk, env, httpLog, loc, prov >>

----------------------------------------------------------------------------
(* handle_branch                                                           *)

FeatBranch == << "feat" >>
MaxBranchOps == 2

(* handle_branch: the repository check *)
handle_branch ==
  /\ pc = "handle_branch"
  /\ \E is_repo \in Obs("isRepo", BOOLEAN) :
       LET r == Put(repo, "isRepo", is_repo) IN
       /\ See(r, r)
       /\ IF is_repo THEN Goto("branch_menu") /\ Say({ })
          ELSE Goto("run_return") /\ Say({ "not a git repository" })
  /\ loc' = [ handler |-> "branch", ops |-> 0, del_branch |-> EmptyStr, confirm |-> "" ]
  /\ UNCHANGED << argv, accounts, runVars, disk, env, gitLog, httpLog, prov >>

(* 'git branch -d <name>' fails for a missing, a checked-out or an unmerged branch *)
DeleteResults(r, name, force) ==
  IF r.featExists /\ name = FeatBranch /\ r.branch # FeatBranch
  THEN IF force THEN { 0 } ELSE { 0, 1 }
  ELSE { 1 }

(* handle_branch: one pass of the menu loop, with the name prompt of the choice *)
branch_menu ==
  /\ pc = "branch_menu"
  /\ \E choice \in { "1", "2", "3", "4", "5", "" }, name \in { FeatBranch, EmptyStr },
        exists \in Obs("featExists", BOOLEAN), current \in Obs("branch", Branches) :
       LET r == Put(Put(repo, "featExists", exists), "branch", current) IN
       /\ choice \notin { "2", "3", "4" } => name = EmptyStr
       /\ (choice \in { "1", "2", "3", "4" } /\ (choice = "1" \/ name # EmptyStr))
            => loc.ops < MaxBranchOps
       /\ IF choice = "1" THEN
            /\ See(r, r) /\ Goto("branch_menu") /\ Say({ "available branches" })
            /\ gitLog' = gitLog \o << Git("branch", EmptyStr, 0) >>
            /\ loc' = [ loc EXCEPT !.ops = @ + 1 ]
          ELSE IF choice \in { "2", "3", "4" } /\ name = EmptyStr THEN
            /\ Goto("branch_menu") /\ Say({ })
            /\ UNCHANGED << repo, repo0, gitLog, loc >>
          ELSE IF choice = "2" THEN
            LET code == IF r.featExists THEN 128 ELSE 0 IN
            /\ See(r, [ r EXCEPT !.featExists = TRUE ])
            /\ gitLog' = gitLog \o << Git("branch <name>", name, code) >>
            /\ Goto("branch_menu")
            /\ Say({ IF code = 0 THEN "branch created" ELSE "failed to create branch" })
            /\ loc' = [ loc EXCEPT !.ops = @ + 1 ]
          ELSE IF choice = "3" THEN
            LET code == IF r.featExists THEN 0 ELSE 1 IN
            /\ See(r, IF code = 0 THEN [ r EXCEPT !.branch = name ] ELSE r)
            /\ gitLog' = gitLog \o << Git("checkout", name, code) >>
            /\ Goto("branch_menu")
            /\ Say({ IF code = 0 THEN "switched branch" ELSE "failed to switch branch" })
            /\ loc' = [ loc EXCEPT !.ops = @ + 1 ]
          ELSE IF choice = "4" THEN
            \E code \in DeleteResults(r, name, FALSE) :
              /\ See(r, IF code = 0 THEN [ r EXCEPT !.featExists = FALSE ] ELSE r)
              /\ gitLog' = gitLog \o << Git("branch -d", name, code) >>
              /\ loc' = [ loc EXCEPT !.ops = @ + 1, !.del_branch = name ]
              /\ IF code = 0 THEN Goto("branch_menu") /\ Say({ "branch deleted" })
                 ELSE Goto("branch_force") /\ Say({ })
          ELSE IF choice = "5" THEN
            /\ Goto("run_return") /\ Say({ "exiting branch menu" })
            /\ UNCHANGED << repo, repo0, gitLog, loc >>
          ELSE
            Reprompt("invalid choice") /\ UNCHANGED << repo, repo0, gitLog, loc >>
  /\ UNCHANGED << argv, accounts, runVars, disk, env, httpLog, prov >>

(* a force-delete question whose answer is not looked at *)
ForceUnasked(confirm) == TRUE
(* if confirm == "y" *)
ForceConfirmed(confirm) == confirm = "y"

(* handle_branch: "Delete failed. Force delete? (y/n): " *)
branch_force ==
  /\ pc = "branch_force"
  /\ \E confirm \in { "y", "n", "yes", "" } :
       /\ IF ForceConfirmed(confirm) THEN
            \E code \in DeleteResults(repo, loc.del_branch, TRUE) :
              /\ See(repo, IF code = 0 THEN [ repo EXCEPT !.featExists = FALSE ] ELSE repo)
              /\ gitLog' = gitLog \o << Git("branch -D", loc.del_branch, code) >>
              /\ Say({ IF code = 0 THEN "branch force deleted" ELSE "force delete failed" })
          ELSE
            /\ Say({ "delete cancelled" })
            /\ UNCHANGED << repo, repo0, gitLog >>
       /\ loc' = [ loc EXCEPT !.confirm = confirm ]
  /\ Goto("branch_menu")
  /\ UNCHANGED << argv, accounts, runVars, disk, env, httpLog, prov >>

----------------------------------------------------------------------------
(* The GitHub API: requests sent, with the status received (0: the request *)
(* raised an exception)                                                    *)

(* f"{value}" *)
Fmt(value) == IF value = None THEN << "None" >> ELSE value
ApiUserRepos == << "https://api.github.com/user/repos" >>
(* f'https://api.github.com/repos/{github_user}/{repo_name}' *)
RepoApiUrl(user, repo_name) == << "https://api.github.com/repos/" >> \o Fmt(user) \o << "/" >> \o repo_name
Http(method, url, tok, status) ==
  [ method |-> method, url |-> url, auth |-> << "Bearer " >> \o Fmt(tok), status |-> status ]
MaxLookups == 2

(* handle_changename *)
handle_changename ==
  /\ pc = "handle_changename"
  /\ \E old_name \in { RepoProj, EmptyStr }, new_name \in { RepoOther, EmptyStr } :
       IF old_name = EmptyStr \/ new_name = EmptyStr THEN
         /\ Say({ "both names are required" }) /\ httpLog' = httpLog
       ELSE \E status \in { 200, 404, 0 } :
         /\ httpLog' = httpLog \o << Http("PATCH", RepoApiUrl(github_user, old_name), token, status) >>
         /\ Say({ IF status = 200 THEN "repository renamed"
                  ELSE IF status = 0 THEN "error" ELSE "failed to rename repository" })
  /\ Goto("run_return")
  /\ loc' = [ handler |-> "changename" ]
  /\ UNCHANGED << argv, accounts, runVars, disk, env, repo, repo0, gitLog, prov >>

(* handle_remotelist *)
handle_remotelist ==
  /\ pc = "handle_remotelist"
  /\ \E status \in { 200, 401, 0 }, empty \in BOOLEAN :
       /\ status # 200 => empty
       /\ httpLog' = httpLog \o << Http("GET", ApiUserRepos, token, status) >>
       /\ Say({ IF status # 200 THEN "failed to fetch repositories"
                ELSE IF empty THEN "no repositories found" ELSE "repositories listed" })
  /\ Goto("run_return")
  /\ loc' = [ handler |-> "remotelist" ]
  /\ UNCHANGED << argv, accounts, runVars, disk, env, repo, repo0, gitLog, prov >>

----------------------------------------------------------------------------
(* handle_addremote                                                        *)

MaxRepoNameLen == 100
(* re.match(r'^[a-zA-Z0-9._-]+$', repo_name) and len(repo_name) <= 100 *)
ValidRepoName(repo_name) ==
  /\ repo_name # << >>
  /\ \A i \in DOMAIN repo_name : repo_name[i] \in (Range(LowerChars) \cup Range(UpperChars) \cup DigitChars \cup { ".", "_", "-" })
  /\ Len(repo_name) <= MaxRepoNameLen
AddRemoteNames == { RepoProj, RepoOther, EmptyStr, << "m","y"," ","r" >>, [ i \in 1..(MaxRepoNameLen + 1) |-> "a" ] }

handle_addremote ==
  /\ pc = "handle_addremote"
  /\ Goto("addremote_name") /\ Say({ })
  /\ loc' = [ handler |-> "addremote", repo_name |-> EmptyStr, visibility |-> "" ]
  /\ UNCHANGED << argv, accounts, runVars, worldVars, prov >>

(* an availability check that takes every response for a free name *)
AnyStatusAvailable(status) == TRUE
(* elif response.status_code == 404 *)
NameAvailable(status) == status = 404

(* handle_addremote: the name prompt and the availability check *)
addremote_name ==
  /\ pc = "addremote_name"
  /\ \E typed \in AddRemoteNames :
       LET repo_name == Strip(typed) IN
       IF ~ ValidRepoName(repo_name) THEN
         Reprompt("invalid repository name") /\ UNCHANGED << httpLog, loc >>
       ELSE \E status \in { 200, 404, 500, 0 } :
         /\ Len(httpLog) < MaxLookups
         /\ httpLog' = httpLog \o << Http("GET", RepoApiUrl(github_user, repo_name), token, status) >>
         /\ loc' = [ loc EXCEPT !.repo_name = repo_name ]
         /\ IF NameAvailable(status) THEN Goto("addremote_details") /\ Say({ "name is available" })
            ELSE Goto("addremote_name")
                 /\ Say({ IF status = 200 THEN "name already exists"
                          ELSE "error checking availability" })
  /\ UNCHANGED << argv, accounts, runVars, disk, env, repo, repo0, gitLog, prov >>

(* handle_addremote: description and visibility prompts, then the creation *)
addremote_details ==
  /\ pc = "addremote_details"
  /\ \E visibility \in { "public", "private", "" }, status \in { 201, 422, 0 } :
       IF visibility \notin { "public", "private" } THEN
         Reprompt("invalid visibility") /\ UNCHANGED << httpLog, loc >>
       ELSE
         /\ httpLog' = httpLog \o << Http("POST", ApiUserRepos, token, status) >>
         /\ loc' = [ loc EXCEPT !.visibility = visibility ]
         /\ IF status = 201 THEN Goto("addremote_clone") /\ Say({ "remote repository created" })
            ELSE Goto("run_return") /\ Say({ "error creating remote repo" })
  /\ UNCHANGED << argv, accounts, runVars, disk, env, repo, repo0, gitLog, prov >>

(* handle_addremote: "Clone repo to current directory?", the clone and the *)
(* identity of the cloned repository                                       *)
addremote_clone ==
  /\ pc = "addremote_clone"
  /\ \E user_input \in YesNoInputs :
       LET answer == get_valid_yes_no(user_input, "")
           alias_url == RemoteUrl(ssh_alias, github_user, loc.repo_name)
       IN IF answer = "invalid" THEN
            Reprompt("enter y or n") /\ UNCHANGED << repo, repo0, gitLog >>
          ELSE IF answer = "no" THEN
            /\ Goto("run_return") /\ Say({ "skipped cloning" })
            /\ UNCHANGED << repo, repo0, gitLog >>
          ELSE \E rc \in { 0, 128 }, folder \in BOOLEAN :
            /\ rc # 0 => ~ folder
            /\ Goto("run_return")
            /\ IF rc # 0 THEN
                 /\ Say({ "error during clone" })
                 /\ gitLog' = gitLog \o << Git("clone", alias_url, rc) >>
                 /\ UNCHANGED << repo, repo0 >>
               ELSE IF ~ folder THEN
                 /\ Say({ "folder not found" })
                 /\ gitLog' = gitLog \o << Git("clone", alias_url, rc) >>
                 /\ UNCHANGED << repo, repo0 >>
               ELSE \E existing_name \in UserNames, existing_email \in UserEmails :
                 \* os.chdir(repo_name): the clone is the working directory now
                 LET found == [ cwd |-> loc.repo_name, isRepo |-> TRUE,
                                remotes |-> [ n \in { Origin } |-> alias_url ],
                                userName |-> existing_name, userEmail |-> existing_email ]
                     named == IF existing_name = EmptyStr
                              THEN [ found EXCEPT !.userName = github_user ] ELSE found
                     after == IF existing_email = EmptyStr
                              THEN [ named EXCEPT !.userEmail = git_email ] ELSE named
                 IN /\ repo' = after /\ repo0' = found
                    /\ Say({ "repo cloned and configured" })
                    /\ gitLog' = gitLog \o << Git("clone", alias_url, rc) >>
                         \o << Git("config user.name", EmptyStr, IF existing_name = EmptyStr THEN 1 ELSE 0) >>
                         \o (IF existing_name = EmptyStr
                             THEN << Git("config user.name <value>", github_user, 0) >> ELSE << >>)
                         \o << Git("config user.email", EmptyStr, IF existing_email = EmptyStr THEN 1 ELSE 0) >>
                         \o (IF existing_email = EmptyStr
                             THEN << Git("config user.email <value>", git_email, 0) >> ELSE << >>)
  /\ UNCHANGED << argv, accounts, runVars, disk, env, httpLog, loc, prov >>

----------------------------------------------------------------------------
(* handle_delremote                                                        *)


handle_delremote ==
  /\ pc = "handle_delremote"
  /\ Goto("delremote_name") /\ Say({ })
  /\ loc' = [ handler |-> "delremote", repo_name |-> EmptyStr, user_input |-> "" ]
  /\ UNCHANGED << argv, accounts, runVars, worldVars, prov >>

(* an existence check that takes every response for a found repository *)
AnyStatusFound(status) == TRUE
(* if response.status_code == 200 *)
RepoFound(status) == status = 200

(* handle_delremote: the name prompt and the existence check *)
delremote_name ==
  /\ pc = "delremote_name"
  /\ \E typed \in { RepoProj, EmptyStr }, status \in { 200, 404, 500, 0 } :
       LET repo_name == Strip(typed) IN
       /\ Len(httpLog) < MaxLookups
       /\ httpLog' = httpLog \o << Http("GET", RepoApiUrl(github_user, repo_name), token, status) >>
       /\ loc' = [ loc EXCEPT !.repo_name = repo_name ]
       /\ IF RepoFound(status) THEN Goto("delremote_confirm") /\ Say({ "repo found" })
          ELSE Goto("delremote_name")
               /\ Say({ IF status = 404 THEN "repo not found" ELSE "error accessing repository" })
  /\ UNCHANGED << argv, accounts, runVars, disk, env, repo, repo0, gitLog, prov >>

(* handle_delremote: "Are you absolutely sure you want to delete ...?" *)
delremote_confirm ==
  /\ pc = "delremote_confirm"
  /\ \E user_input \in YesNoInputs :
       LET answer == get_valid_yes_no(user_input, "") IN
       IF answer = "invalid" THEN
         Reprompt("enter y or n") /\ UNCHANGED << httpLog, loc >>
       ELSE IF answer = "no" THEN
         /\ Goto("run_return") /\ Say({ "deletion cancelled" }) /\ UNCHANGED httpLog
         /\ loc' = [ loc EXCEPT !.user_input = user_input ]
       ELSE \E status \in { 204, 403, 0 } :
         /\ httpLog' = httpLog \o << Http("DELETE", RepoApiUrl(github_user, loc.repo_name), token, status) >>
         /\ loc' = [ loc EXCEPT !.user_input = user_input ]
         /\ Goto("run_return")
         /\ Say({ IF status = 204 THEN "repository deleted" ELSE "failed to delete repository" })
  /\ UNCHANGED << argv, accounts, runVars, disk, env, repo, repo0, gitLog, prov >>

----------------------------------------------------------------------------
(* setup_menu, set_github_tokens, add_gitgo_to_env, remove_gitgo_from_env   *)

PersonalTokenVar == << "G","I","T","H","U","B","_","P","E","R","S","O","N","A","L","_","T","O","K","E","N" >>
WorkTokenVar == << "G","I","T","H","U","B","_","W","O","R","K","_","T","O","K","E","N" >>
TypedToken == << "ghp_typed" >>

(* setup_menu: one pass of the menu loop, with what the chosen entry does *)
setup_menu ==
  /\ pc = "setup_menu"
  /\ \E choice \in { "1", "2", "3", "4", "5", "", "^C" } :
       IF choice = "^C" THEN
         /\ Goto("run_return") /\ Say({ "exiting setup menu" })
         /\ UNCHANGED << env, repo, repo0, loc >>
       ELSE IF choice = "1" THEN
         /\ Goto("provision") /\ Say({ })
         /\ loc' = [ handler |-> "setup" ]
         /\ UNCHANGED << env, repo, repo0 >>
       ELSE IF choice = "2" THEN
         \E personal_token \in { EmptyStr, TypedToken, << "^C" >> },
            work_token \in { EmptyStr, TypedToken, << "^C" >> } :
           /\ personal_token = << "^C" >> => work_token = EmptyStr
           /\ UNCHANGED << repo, repo0, loc >>
           /\ IF << "^C" >> \in { personal_token, work_token } THEN
                Goto("run_return") /\ Say({ "exiting setup menu" }) /\ env' = env
              ELSE IF personal_token = EmptyStr \/ work_token = EmptyStr THEN
                Goto("setup_menu") /\ Say({ "token setup failed" }) /\ env' = env
              ELSE
                /\ Goto("setup_menu") /\ Say({ "tokens configured" })
                /\ env' = EnvPut(EnvPut(env, PersonalTokenVar, personal_token),
                                 WorkTokenVar, work_token)
       ELSE IF choice \in { "3", "4" } THEN
         \E platform \in Obs("platform", { "windows", "other" }) :
           LET r == Put(repo, "platform", platform) IN
           /\ See(r, r) /\ UNCHANGED << env, loc >>
           /\ IF platform = "windows"
              THEN Goto("setup_menu") /\ Say({ "user PATH edited" })
              ELSE Crash("ModuleNotFoundError") /\ Say({ })
       ELSE IF choice = "5" THEN
         /\ Goto("run_return") /\ Say({ "exiting setup menu" })
         /\ UNCHANGED << env, repo, repo0, loc >>
       ELSE
         Reprompt("invalid choice") /\ UNCHANGED << env, repo, repo0, loc >>
  /\ UNCHANGED << argv, accounts, runVars, disk, gitLog, httpLog, prov >>

----------------------------------------------------------------------------
(* The program from its start to its end, up to the hand-off to            *)
(* generate_github_ssh_keys_and_config                                     *)

Next ==
  \/ Run \/ get_action_input \/ account_setup \/ select_github_account
  \/ safe_input_interrupt \/ dispatch \/ RunReturn \/ handle_help
  \/ handle_push \/ push_confirm_dirty \/ push_detect_repo \/ push_use_detected
  \/ push_repo_name \/ push_prepare \/ push_issue
  \/ invoke_git_commit \/ commit_add_choice \/ commit_add_files \/ commit_msg_choice
  \/ commit_msg_custom \/ commit_msg_template \/ commit_amend_push \/ commit_perform
  \/ commit_push
  \/ handle_showuser \/ get_git_repository_info
  \/ show_git_history \/ history_num \/ history_view
  \/ handle_adduser \/ adduser_prompt
  \/ handle_pull \/ pull_choice \/ pull_run
  \/ handle_branch \/ branch_menu \/ branch_force
  \/ handle_changename \/ handle_remotelist
  \/ handle_addremote \/ addremote_name \/ addremote_details \/ addremote_clone
  \/ handle_delremote \/ delremote_name \/ delremote_confirm
  \/ setup_menu

Spec == Init /\ [][Next]_vars

----------------------------------------------------------------------------
(* generate_github_ssh_keys_and_config.  disk.keyFiles maps the name of a  *)
(* private key file of ~/.ssh to its content, disk.sshConfig is the list   *)
(* of stanzas of ~/.ssh/config, disk.accountsFile is ~/.ssh/accounts.json. *)

MaxAccounts == 3
(* the count check without its upper limit *)
CountAtLeastOne(count) == 1 <= count
(* if 1 <= count <= 3 *)
CountInRange(count) == 1 <= count /\ count <= MaxAccounts

(* f"id_ed25519_{alias}" *)
KeyName(alias) == << "id_ed25519_" >> \o alias
(* the config entry of one account *)
Stanza(account_type, alias) ==
  [ comment |-> account_type, Host |-> alias, HostName |-> "github.com", User |-> "git",
    IdentityFile |-> << "~/.ssh/" >> \o KeyName(alias), IdentitiesOnly |-> "yes" ]
PriorKey == << "key of an earlier run" >>
NewKey(email) == << "ed25519 key for " >> \o email

(* what the user types for one account: label, e-mail, GitHub user name,   *)
(* local user name                                                         *)
Form(account_type, email, username, local_username) ==
  [ account_type |-> account_type, email |-> email, username |-> username,
    local_username |-> local_username ]
LabelW == << "w" >>
AccountForms ==
  { Form(LabelW, << "w@example.org" >>, << "alice" >>, << "Alice" >>),
    Form(<< "W" >>, << "w2@example.org" >>, << "alice-corp" >>, << >>),
    Form(<< " ", "w" >>, << "w3@example.org" >>, << "alice" >>, << " " >>),
    Form(<< >>, << "none@example.org" >>, << "bob" >>, << "Bob" >>),
    Form(<< "h", "-", "1" >>, << "h@example.org" >>, << "carol" >>, << >>) }

(* ~/.ssh as provisioning may find it: empty, left by an earlier run for   *)
(* the label 'w', or holding files of other origin                         *)
PriorDisks ==
  { [ accountsFile |-> FileAbsent, sshConfig |-> << >>, keyFiles |-> << >> ],
    [ accountsFile |-> FileOf(<< AccountRecord(LabelW, << "w@example.org" >>, << "alice" >>, << "Alice" >>) >>),
      sshConfig |-> << Stanza(LabelW, Alias(LabelW)) >>,
      keyFiles |-> [ k \in { KeyName(Alias(LabelW)) } |-> PriorKey ] ],
    [ accountsFile |-> FileOf(<< AccWork >>),
      sshConfig |-> << Stanza(<< "other" >>, << "gitlab" >>) >>,
      keyFiles |-> << >> ] }

(* the procedure is about to be called, from 'ssh-setup' or the setup menu *)
InitProvision ==
  /\ pc = "provision"
  /\ argv \in { "ssh-setup", "setup" }
  /\ disk \in PriorDisks
  /\ accounts = load_github_accounts(disk.accountsFile)
  /\ env = << >>
  /\ action = NoAction /\ selected = NoAccount /\ account = None
  /\ github_user = None /\ ssh_alias = None /\ git_email = None /\ token = None
  /\ out = LoadMessages(disk.accountsFile) /\ notice = ""
  /\ fault = "none" /\ exitCause = "none"
  /\ gitLog = << >> /\ httpLog = << >>
  /\ repo = NoRepo /\ repo0 = NoRepo
  /\ loc = [ handler |-> IF argv = "setup" THEN "setup" ELSE "none" ]
  /\ prov = [ running |-> FALSE ]

provFrame == << argv, accounts, runVars, env, repo, repo0, gitLog, httpLog, loc >>

(* entry: the .ssh directory and the ssh-keygen check *)
provision_start ==
  /\ pc = "provision"
  /\ \E keygen_found \in BOOLEAN :
       IF keygen_found THEN Goto("prov_count") /\ Say({ "ssh directory ready" })
       ELSE Goto("prov_return") /\ Say({ "ssh-keygen not found" })
  /\ prov' = [ running |-> TRUE, disk0 |-> disk, count |-> 0, i |-> 0,
               config_entries |-> << >>, accounts_data |-> << >>,
               keygen |-> << >>, probes |-> << >> ]
  /\ UNCHANGED << provFrame, disk >>

CountInputs ==
  { << "0" >>, << "1" >>, << "2" >>, << "3" >>, << "4" >>, << "-", "1" >>, << >>,
    << "t", "w", "o" >>, << " ", "2" >>, << "2", ".", "0" >>, << "1", "2" >> }

(* "How many GitHub accounts do you want to set up? (Max: 3) " *)
prov_count ==
  /\ pc = "prov_count"
  /\ \E typed \in CountInputs :
       LET parsed == ParseInt(typed) IN
       IF ~ parsed[1] THEN
         Reprompt("enter a valid number") /\ prov' = prov
       ELSE IF ~ CountInRange(parsed[2]) THEN
         Reprompt("enter only 1, 2, or 3") /\ prov' = prov
       ELSE
         /\ Goto("prov_account") /\ Say({ })
         /\ prov' = [ prov EXCEPT !.count = parsed[2], !.i = 1 ]
  /\ UNCHANGED << provFrame, disk >>

(* the account whose key could not be generated is left out ('continue') *)
KeptOnFailure(outcome) == FALSE
SkippedAccount(outcome) == outcome = "failed"

(* the existence test answering that no key file is ever there *)
KeyNeverExists(keyFiles, key_name) == FALSE
(* os.path.exists(key_path) *)
KeyExists(keyFiles, key_name) == key_name \in DOMAIN keyFiles

(* one pass of "for i in range(1, count + 1)": the four prompts, the key,  *)
(* the config entry and the account record                                 *)
prov_account ==
  /\ pc = "prov_account"
  /\ \E form \in AccountForms, generated \in BOOLEAN :
       LET account_type == form.account_type
           local_username == IF Strip(form.local_username) = << >>
                             THEN form.username ELSE form.local_username
           alias == Alias(account_type)
           key_name == KeyName(alias)
           exists == KeyExists(disk.keyFiles, key_name)
           outcome == IF exists THEN "exists" ELSE IF generated THEN "generated" ELSE "failed"
           last == prov.i = prov.count
       IN /\ exists => generated
          /\ disk' = IF outcome = "generated"
                     THEN [ disk EXCEPT !.keyFiles =
                              [ k \in (DOMAIN @) \cup { key_name } |->
                                  IF k = key_name THEN NewKey(form.email) ELSE @[k] ] ]
                     ELSE disk
          /\ prov' = IF SkippedAccount(outcome)
                     THEN [ prov EXCEPT !.i = @ + 1, !.keygen = Append(@, outcome) ]
                     ELSE [ prov EXCEPT
                              !.i = @ + 1, !.keygen = Append(@, outcome),
                              !.config_entries = Append(@, Stanza(account_type, alias)),
                              !.accounts_data =
                                 Append(@, AccountRecord(account_type, form.email,
                                                         form.username, local_username)) ]
          /\ Goto(IF last THEN "prov_write_config" ELSE "prov_account")
          /\ Say({ IF outcome = "exists" THEN "key already exists"
                   ELSE IF outcome = "generated" THEN "key generated"
                   ELSE "key generation failed" })
  /\ UNCHANGED provFrame

(* Ctrl-C at a prompt of the procedure, read through safe_input *)
prov_interrupt ==
  /\ pc \in { "prov_count", "prov_account" }
  /\ Exit("interrupt") /\ Say({ "farewell" })
  /\ UNCHANGED << provFrame, disk, prov >>

(* a write that keeps what the file held and adds to it *)
AppendFile(prior, content) == prior \o content
(* open(config_path, 'w'): the file holds what is written, nothing else *)
WriteFile(prior, content) == content

(* "Write SSH config file" *)
prov_write_config ==
  /\ pc = "prov_write_config"
  /\ disk' = [ disk EXCEPT !.sshConfig = WriteFile(@, prov.config_entries) ]
  /\ Goto(IF prov.accounts_data = << >> THEN "prov_save" ELSE "prov_probe")
  /\ Say({ "ssh config saved" })
  /\ UNCHANGED << provFrame, prov >>


(* a probe loop that stops after its first pass *)
FirstProbeEnough(probes, accounts_data) == TRUE
(* "for account in accounts_data" is exhausted *)
AllProbed(probes, accounts_data) == Len(probes) = Len(accounts_data)

(* "Test SSH connections for each account": one account *)
prov_probe ==
  /\ pc = "prov_probe"
  /\ \E outcome \in { "authenticated", "unclear", "exception" } :
       /\ prov' = [ prov EXCEPT !.probes = Append(@, outcome) ]
       /\ Say({ IF outcome = "authenticated" THEN "connection successful"
                ELSE IF outcome = "unclear" THEN "authentication unclear"
                ELSE "connection failed" })
  /\ Goto(IF AllProbed(prov'.probes, prov.accounts_data) THEN "prov_save" ELSE "prov_probe")
  /\ UNCHANGED << provFrame, disk >>

(* "Save account information to JSON file" *)
prov_save ==
  /\ pc = "prov_save"
  /\ disk' = [ disk EXCEPT !.accountsFile = FileOf(prov.accounts_data) ]
  /\ Goto("prov_return") /\ Say({ "account information saved" })
  /\ UNCHANGED << provFrame, prov >>

(* the procedure returns: to run, which returns, or to the setup menu *)
prov_return ==
  /\ pc = "prov_return"
  /\ IF argv = "ssh-setup" THEN Exit("return") ELSE Goto("setup_menu")
  /\ Say({ })
  /\ prov' = [ prov EXCEPT !.running = FALSE ]
  /\ UNCHANGED << provFrame, disk >>

NextProvision ==
  \/ provision_start \/ prov_count \/ prov_account \/ prov_interrupt
  \/ prov_write_config \/ prov_probe \/ prov_save \/ prov_return

SpecProvision == InitProvision /\ [][NextProvision]_vars

(* the probes and the save are not prompts: each probe ends (it has a      *)
(* timeout) and the procedure goes on by itself                            *)
SpecProvisionProbes == SpecProvision /\ WF_vars(prov_probe) /\ WF_vars(prov_save)

----------------------------------------------------------------------------
(* Properties of the interactive session (Spec)                            *)

QuitCauses == { "q", "interrupt" }
CommitPrompts ==
  { "commit_add_choice", "commit_add_files", "commit_msg_choice", "commit_msg_custom",
    "commit_msg_template", "commit_amend_push", "commit_push" }
CommitCommands == AddCommands \cup { "commit -m", "commit --amend" }

(* C1: an interactive session (started without arguments) ends only when   *)
(* the user enters 'q' or interrupts: after a menu action has finished the *)
(* process has not ended for any other cause.                              *)
C1_SessionEndsOnlyOnQuit ==
  (argv = NoArg /\ pc = "exited") => exitCause \in QuitCauses

(* C1: the help action has finished without any fault and the process has  *)
(* ended because run() returned.                                           *)
C1_EndedAfterOneAction ==
  /\ argv = NoArg /\ action = "help" /\ "help" \in out
  /\ pc = "exited" /\ exitCause = "return" /\ fault = "none"

(* C2: the 'Invalid action' branch of the dispatcher is never taken for a  *)
(* selection that get_action_input accepted.                               *)
C2_NoInvalidAction ==
  (action \in Range(valid_actions)) => "invalid action" \notin out

(* C2: 'remotem' was accepted by get_action_input and the dispatcher       *)
(* reported an invalid action.                                             *)
C2_RemotemIsInvalid ==
  action = "remotem" /\ "invalid action" \in out

(* C3: once tokeninfo has been chosen and the token of the selected        *)
(* account was found missing, no HTTP request is made, no fault is raised  *)
(* and the session continues: the process ends only when the user quits.   *)
C3_MissingTokenReturnsToMenu ==
  (action = "tokeninfo" /\ "missing token" \in out) =>
     /\ httpLog = << >>
     /\ fault = "none"
     /\ pc = "exited" => exitCause \in QuitCauses

(* C3: tokeninfo with a missing token: reported, no request, no fault, and *)
(* the process has ended because run() returned.                           *)
C3_MissingTokenEndsProcess ==
  /\ action = "tokeninfo" /\ "missing token" \in out
  /\ httpLog = << >> /\ fault = "none"
  /\ pc = "exited" /\ exitCause = "return"

(* C4: when accounts.json holds a record that lacks a required field, the  *)
(* loaded account list is empty and no step of the process faults.         *)
C4_IncompleteRecordsFailSoft ==
  HasIncompleteRecord(disk.accountsFile) => (accounts = << >> /\ fault = "none")

(* C4: a record without 'name' was loaded and the account listing of an    *)
(* account-requiring action ended the process with a KeyError.             *)
C4_CrashOnMissingName ==
  /\ \E i \in DOMAIN accounts : ~ HasKey(accounts[i], "name")
  /\ action = "push" /\ pc = "crashed" /\ fault = "KeyError"

(* C5: when the push handler found no remote named 'origin', then at the   *)
(* moment 'git push' is issued a remote named 'origin' exists and its URL  *)
(* is git@A:U/R.git for the selected account and the chosen repository.    *)
C5_OriginSetBeforePush ==
  (pc = "push_issue" /\ Origin \notin DOMAIN repo0.remotes) =>
     /\ Origin \in DOMAIN repo.remotes
     /\ repo.remotes[Origin] = RemoteUrl(ssh_alias, github_user, loc.repo_name)

(* C5: the handler is about to push, it found a remote 'origin2' and none  *)
(* named 'origin', and there is still no remote named 'origin'.            *)
C5_PushWithoutOrigin ==
  /\ pc = "push_issue"
  /\ DOMAIN repo0.remotes = { Origin2 }
  /\ Origin \notin DOMAIN repo.remotes

(* C6, as stated: when the commit handler found a tree with no staged and  *)
(* no unstaged (modified) changes, it issues no 'git add' and no           *)
(* 'git commit' and is at no staging or message prompt.                    *)
C6_NoChangesNoPrompt ==
  (loc.handler = "commit" /\ "tree" \in DOMAIN repo0
     /\ repo0.tree \cap { "modified", "staged" } = { }) =>
       /\ \A i \in DOMAIN gitLog : gitLog[i].cmd \notin CommitCommands
       /\ pc \notin CommitPrompts

(* C6, amended: when the commit handler found a tree for which             *)
(* 'git status --porcelain' prints nothing (no staged, no modified and no  *)
(* untracked file), it issues no 'git add' and no 'git commit', is at no   *)
(* staging or message prompt, and has returned.                            *)
C6_CleanTreeNoCommit ==
  (loc.handler = "commit" /\ "tree" \in DOMAIN repo0 /\ repo0.tree = { }) =>
       /\ \A i \in DOMAIN gitLog : gitLog[i].cmd \notin CommitCommands
       /\ pc \in { "run_return", "exited" }
       /\ "working tree clean" \in out

(* C6: the commit handler found a clean tree and has returned. *)
C6_CleanTreeReturned ==
  /\ loc.handler = "commit" /\ "tree" \in DOMAIN repo0 /\ repo0.tree = { }
  /\ pc = "run_return" /\ "working tree clean" \in out

----------------------------------------------------------------------------
(* Properties of the provisioning procedure (SpecProvision)                *)

ConfigWritten == "ssh config saved" \in out
AccountsSaved == "account information saved" \in out
Failed(keygen) == Cardinality({ i \in DOMAIN keygen : keygen[i] = "failed" })
Distinct(seq, field) ==
  \A i, j \in DOMAIN seq : i # j => seq[i][field] # seq[j][field]

(* C7: the per-account prompts begin only after a count in {1,2,3} was     *)
(* entered; any other entry leaves the procedure at the count prompt with  *)
(* a rejection, and while it is at the count prompt no key file, SSH       *)
(* config or accounts file has been written.                               *)
C7_CountPromptGuardsAccounts ==
  /\ [](pc = "prov_account" => prov.count \in { 1, 2, 3 })
  /\ [](pc = "prov_count" => disk = prov.disk0)
  /\ [][pc = "prov_count" =>
          \/ pc' = "prov_account" /\ prov'.count \in { 1, 2, 3 } /\ prov'.i = 1 /\ disk' = disk
          \/ pc' = "prov_count" /\ notice' # "" /\ prov' = prov /\ disk' = disk
          \/ pc' = "exited" /\ exitCause' = "interrupt" /\ disk' = disk]_vars

(* C7: a count outside 1..3 has just been rejected and nothing is written. *)
C7_CountRejected ==
  /\ pc = "prov_count" /\ notice = "enter only 1, 2, or 3"
  /\ disk = prov.disk0 /\ prov.accounts_data = << >>

(* C8, as stated: once the SSH config is written, the number of its        *)
(* stanzas equals the count n that was entered.                            *)
C8_StanzasEqualCount ==
  ConfigWritten => Len(disk.sshConfig) = prov.count

(* C8, amended: once the SSH config is written, every account has had its  *)
(* key looked at, and the number of stanzas equals n minus the number of   *)
(* accounts whose key generation failed.                                   *)
C8_StanzasEqualKeptAccounts ==
  ConfigWritten =>
     /\ prov.count \in { 1, 2, 3 }
     /\ Len(prov.keygen) = prov.count
     /\ Len(disk.sshConfig) = prov.count - Failed(prov.keygen)

(* C8: three accounts were entered, one key generation failed, and the     *)
(* config that was written has two stanzas.                                *)
C8_OneAccountSkipped ==
  /\ ConfigWritten /\ prov.count = 3
  /\ Failed(prov.keygen) = 1 /\ Len(disk.sshConfig) = 2

(* C9: after a provisioning run the aliases of the accounts in             *)
(* accounts.json are pairwise distinct, and so are the Host names of the   *)
(* stanzas of the SSH config.                                              *)
C9_AliasesDistinct ==
  AccountsSaved =>
     /\ Distinct(disk.accountsFile.data, "sshAlias")
     /\ Distinct(disk.sshConfig, "Host")

(* C9: the labels 'w' and 'W' were both saved, with the same alias. *)
C9_SameAliasTwice ==
  /\ AccountsSaved
  /\ \E i, j \in DOMAIN disk.accountsFile.data :
        /\ disk.accountsFile.data[i].name = << "w" >>
        /\ disk.accountsFile.data[j].name = << "W" >>
        /\ disk.accountsFile.data[i].sshAlias = disk.accountsFile.data[j].sshAlias

(* C10: the alias of every account of the run is "github-" followed by the *)
(* lowercased label with each character outside [a-z0-9] replaced by "_",  *)
(* one character per character of the label, and matches                   *)
(* ^github-[a-z0-9_]+$.                                                    *)
C10_AliasOfLabel ==
  "accounts_data" \in DOMAIN prov =>
     \A i \in DOMAIN prov.accounts_data :
        LET a == prov.accounts_data[i] IN
        /\ a.sshAlias = GithubPrefix \o SubNonAlnum(Lower(a.name))
        /\ Len(a.sshAlias) = Len(GithubPrefix) + Len(a.name)
        /\ MatchesAliasPattern(a.sshAlias)

(* C10: an account with the empty label was recorded with the alias        *)
(* "github-", which does not match the pattern.                            *)
C10_EmptyLabelAlias ==
  /\ "accounts_data" \in DOMAIN prov
  /\ \E i \in DOMAIN prov.accounts_data :
        /\ prov.accounts_data[i].name = << >>
        /\ prov.accounts_data[i].sshAlias = GithubPrefix
        /\ ~ MatchesAliasPattern(prov.accounts_data[i].sshAlias)

(* C11: a private key file that exists when provisioning processes an     *)
(* account of its alias is left unchanged, in this run and in a run over   *)
(* the files an earlier run left (no step of provisioning rewrites or      *)
(* removes an existing key file), and the account whose key existed still  *)
(* gets its stanza and its record, both naming the existing key.           *)
C11_ExistingKeyKept ==
  [][ /\ \A k \in DOMAIN disk.keyFiles :
           k \in DOMAIN disk'.keyFiles /\ disk'.keyFiles[k] = disk.keyFiles[k]
      /\ ( /\ pc = "prov_account" /\ pc' \in { "prov_account", "prov_write_config" }
           /\ prov'.keygen[Len(prov'.keygen)] = "exists" )
         => /\ Len(prov'.config_entries) = Len(prov.config_entries) + 1
            /\ Len(prov'.accounts_data) = Len(prov.accounts_data) + 1
            /\ LET entry == prov'.config_entries[Len(prov'.config_entries)]
                   record == prov'.accounts_data[Len(prov'.accounts_data)]
               IN /\ entry.Host = record.sshAlias
                  /\ entry.IdentityFile = << "~/.ssh/" >> \o KeyName(record.sshAlias)
                  /\ KeyName(record.sshAlias) \in DOMAIN disk.keyFiles ]_vars
(* a run over an earlier run's files met the earlier key, kept it and      *)
(* wrote the configuration with the stanza that names it                   *)
C11_PriorKeyReused ==
  /\ "disk0" \in DOMAIN prov
  /\ KeyName(Alias(LabelW)) \in DOMAIN prov.disk0.keyFiles
  /\ "ssh config saved" \in out
  /\ \E n \in DOMAIN prov.keygen : prov.keygen[n] = "exists"
  /\ disk.keyFiles[KeyName(Alias(LabelW))] = PriorKey
  /\ \E n \in DOMAIN disk.sshConfig : disk.sshConfig[n].Host = Alias(LabelW)

(* C12: at every prompt a user interrupt is trapped and ends the process   *)
(* cleanly with a farewell: no KeyboardInterrupt propagates out of the top *)
(* level.                                                                  *)
C12_InterruptsTrapped ==
  /\ fault # "KeyboardInterrupt"
  /\ exitCause = "interrupt" => "farewell" \in out
(* the interrupt at the pull flow's stash/continue/cancel prompt, read     *)
(* with a bare input(), left the program as an uncaught fault              *)
C12_PullPromptInterruptUncaught ==
  /\ pc = "crashed" /\ fault = "KeyboardInterrupt"
  /\ loc.handler = "pull" /\ action = "pull"
  /\ "farewell" \notin out

(* C13: a DELETE request is sent only from the deletion handler's          *)
(* confirmation, for the repository whose existence check was the request  *)
(* just before it and returned 200, and on the answer y or yes; on the     *)
(* answer n or no the handler ends with no request sent.                   *)
C13_DeleteOnlyAfterFoundAndYes ==
  [][ /\ ( /\ Len(httpLog') > Len(httpLog)
           /\ httpLog'[Len(httpLog')].method = "DELETE" )
         => /\ pc = "delremote_confirm" /\ loc.handler = "delremote"
            /\ Len(httpLog') = Len(httpLog) + 1
            /\ Len(httpLog) > 0
            /\ httpLog[Len(httpLog)].method = "GET"
            /\ httpLog[Len(httpLog)].status = 200
            /\ httpLog[Len(httpLog)].url = httpLog'[Len(httpLog')].url
            /\ httpLog[Len(httpLog)].url = RepoApiUrl(github_user, loc.repo_name)
            /\ loc'.user_input \in { "y", "yes" }
      /\ ( /\ pc = "delremote_confirm" /\ pc' = "run_return"
           /\ loc'.user_input \in { "n", "no" } )
         => /\ httpLog' = httpLog
            /\ "deletion cancelled" \in out' ]_vars
(* a first name was not found, the second was, the user confirmed and the  *)
(* repository of the second name was deleted                               *)
C13_DeletedAfterSecondLookup ==
  /\ pc = "run_return" /\ action = "delremote"
  /\ Len(httpLog) = 3
  /\ httpLog[1].status = 404 /\ httpLog[2].status = 200
  /\ httpLog[1].url # httpLog[2].url
  /\ httpLog[3].method = "DELETE" /\ httpLog[3].url = httpLog[2].url
  /\ httpLog[3].status = 204

(* C14: 'git branch -D' is issued only from the force-delete question,     *)
(* right after 'git branch -d' of the same branch failed, and on the       *)
(* answer y; 'git push ... --force-with-lease' is issued only from the     *)
(* amend path's push question, after 'git commit --amend', on the answer   *)
(* y or yes. No other step issues either command.                          *)
C14_ForceOnlyAfterConfirmation ==
  [][ \A n \in (Len(gitLog) + 1) .. Len(gitLog') :
        /\ gitLog'[n].cmd = "branch -D" =>
             /\ pc = "branch_force" /\ loc.handler = "branch"
             /\ n = Len(gitLog) + 1 /\ Len(gitLog) > 0
             /\ gitLog[Len(gitLog)].cmd = "branch -d"
             /\ gitLog[Len(gitLog)].rc # 0
             /\ gitLog[Len(gitLog)].arg = gitLog'[n].arg
             /\ loc'.confirm = "y"
        /\ gitLog'[n].cmd = "push origin --force-with-lease" =>
             /\ pc = "commit_amend_push" /\ loc.handler = "commit"
             /\ n = Len(gitLog) + 1
             /\ \E m \in DOMAIN gitLog : gitLog[m].cmd = "commit --amend"
             /\ loc'.user_input \in { "y", "yes" } ]_vars
(* a normal delete failed, the user answered y and the forced delete       *)
(* removed the branch                                                      *)
C14_ForceDeleted ==
  /\ pc = "branch_menu" /\ Len(gitLog) >= 2
  /\ gitLog[Len(gitLog)] = Git("branch -D", FeatBranch, 0)
  /\ gitLog[Len(gitLog) - 1] = Git("branch -d", FeatBranch, 1)
  /\ loc.confirm = "y"

(* C15: when the pull flow found local changes and the user chose cancel,  *)
(* the handler ends at once; the only git commands it has run are the      *)
(* branch lookup and the status query, and the working tree and the stash  *)
(* are as they were found.                                                 *)
C15_CancelIssuesNothing ==
  [][ ( pc = "pull_choice" /\ loc'.pull_choice = "3" )
        => /\ pc' = "run_return"
           /\ gitLog' = gitLog /\ httpLog' = httpLog
           /\ repo' = repo /\ disk' = disk
           /\ gitLog = << Git("branch --show-current", EmptyStr, 0),
                          Git("status --porcelain", EmptyStr, 0) >>
           /\ repo.tree = repo0.tree /\ repo.tree # { }
           /\ "pull cancelled" \in out' ]_vars
(* the pull was cancelled over a modified working tree *)
C15_PullCancelled ==
  /\ pc = "run_return" /\ action = "pull" /\ loc.pull_choice = "3"
  /\ "uncommitted changes" \in out /\ "pull cancelled" \in out
  /\ "modified" \in repo.tree /\ Len(gitLog) = 2

(* C16 as stated: when stash-then-pull was chosen and the stash was pushed, *)
(* the pull step ends with a 'git stash pop', whatever the pull returned.  *)
C16_PopAfterEveryPull ==
  [][ ( /\ pc = "pull_run" /\ loc.should_pop_stash
        /\ gitLog[Len(gitLog)] = Git("stash push", EmptyStr, 0) )
        => gitLog'[Len(gitLog')].cmd = "stash pop" ]_vars
(* C16: when stash-then-pull was chosen and the stash was pushed, a pull    *)
(* that succeeded is followed at once by one 'git stash pop', whose        *)
(* failure is reported as a conflict, and the handler ends without another *)
(* command; a pull that failed is followed by no restore: the stash is     *)
(* left as it is and the user is told that the changes are stashed.        *)
C16_PopAfterSuccessfulPull ==
  [][ ( /\ pc = "pull_run" /\ loc.should_pop_stash
        /\ gitLog[Len(gitLog)] = Git("stash push", EmptyStr, 0) )
        => /\ pc' = "run_return"
           /\ gitLog'[Len(gitLog) + 2].cmd \in { "pull", "pull origin" }
           /\ IF gitLog'[Len(gitLog) + 2].rc = 0
              THEN /\ Len(gitLog') = Len(gitLog) + 3
                   /\ gitLog'[Len(gitLog')].cmd = "stash pop"
                   /\ gitLog'[Len(gitLog')].rc = 0 => "stash restored" \in out'
                   /\ gitLog'[Len(gitLog')].rc # 0
                        => /\ "conflict restoring stash" \in out'
                           /\ repo'.stash = repo.stash /\ repo'.tree = repo.tree
              ELSE /\ Len(gitLog') = Len(gitLog) + 2
                   /\ repo'.stash = repo.stash /\ repo'.tree = repo.tree
                   /\ "changes are safely stashed" \in out' ]_vars
(* the changes were stashed, the pull failed and the handler ended with    *)
(* the changes still in the stash                                          *)
C16_StashLeftAfterFailedPull ==
  /\ pc = "run_return" /\ action = "pull" /\ loc.should_pop_stash
  /\ Len(gitLog) = 5
  /\ gitLog[3] = Git("stash push", EmptyStr, 0)
  /\ gitLog[5].cmd \in { "pull", "pull origin" } /\ gitLog[5].rc # 0
  /\ repo.stash = repo0.stash + 1
  /\ "changes are safely stashed" \in out

(* C17: in the push flow a user.name (user.email) that resolved to a       *)
(* non-empty value is not written: no write is issued and the value is the *)
(* one found; one that was unset or empty is written (the name with the    *)
(* account's GitHub user name, the e-mail with the account's e-mail)       *)
(* before any 'git push' of the handler is issued.                         *)
C17_IdentityKeptOrSet ==
  ( loc.handler = "push" /\ "userName" \in DOMAIN repo0 ) =>
    LET Pushes == { m \in DOMAIN gitLog : gitLog[m].cmd \in { "push origin", "push -u origin" } }
        Writes(cmd) == { n \in DOMAIN gitLog : gitLog[n].cmd = cmd }
    IN /\ IF repo0.userName # EmptyStr
          THEN repo.userName = repo0.userName /\ Writes("config user.name <value>") = { }
          ELSE /\ repo.userName = github_user
               /\ \E n \in Writes("config user.name <value>") :
                    /\ gitLog[n].arg = github_user
                    /\ \A m \in Pushes : n < m
       /\ IF repo0.userEmail # EmptyStr
          THEN repo.userEmail = repo0.userEmail /\ Writes("config user.email <value>") = { }
          ELSE /\ repo.userEmail = git_email
               /\ \E n \in Writes("config user.email <value>") :
                    /\ gitLog[n].arg = git_email
                    /\ \A m \in Pushes : n < m
(* a push went out from a repository with a name of its own and no e-mail: *)
(* the name is the one found, the e-mail is the account's                  *)
C17_PushedWithNameKept ==
  /\ loc.handler = "push" /\ pc = "run_return" /\ "userName" \in DOMAIN repo0
  /\ repo0.userName # EmptyStr /\ repo0.userEmail = EmptyStr
  /\ repo.userName = repo0.userName /\ repo.userName # github_user
  /\ repo.userEmail = git_email
  /\ gitLog[Len(gitLog)].cmd \in { "push origin", "push -u origin" }

(* C18: when push or pull is entered outside a repository or on a detached *)
(* HEAD, the handler has ended and the program has run nothing but the     *)
(* branch lookup; when the token variable of the selected account is unset *)
(* or empty, the action has ended before its handler: no git command was   *)
(* run and no HTTP request was sent.                                       *)
C18_MissingPreconditionAborts ==
  /\ ( /\ loc.handler \in { "push", "pull" } /\ "isRepo" \in DOMAIN repo0
       /\ \/ ~ repo0.isRepo
          \/ "branch" \in DOMAIN repo0 /\ repo0.branch = EmptyStr )
     => /\ pc \in { "run_return", "exited" }
        /\ httpLog = << >>
        /\ \A n \in DOMAIN gitLog : gitLog[n] = Git("branch --show-current", EmptyStr, 0)
        /\ ~ repo0.isRepo => gitLog = << >>
        /\ { "not a git repository", "unable to determine branch" } \cap out # { }
  /\ ( /\ selected # NoAccount /\ HasKey(selected, "tokenEnvVar")
       /\ selected.tokenEnvVar \in DOMAIN env
       /\ env[selected.tokenEnvVar] = EmptyStr )
     => /\ pc \in { "run_return", "exited" }
        /\ action \in NeedsAccount
        /\ gitLog = << >> /\ httpLog = << >>
        /\ loc.handler = "none"
        /\ "missing token" \in out
(* a push was asked for with an account whose token variable is empty and  *)
(* ended before the handler                                                *)
C18_PushWithoutToken ==
  /\ action = "push" /\ pc = "run_return"
  /\ selected # NoAccount /\ HasKey(selected, "tokenEnvVar")
  /\ selected.tokenEnvVar \in DOMAIN env /\ env[selected.tokenEnvVar] = EmptyStr
  /\ "missing token" \in out /\ gitLog = << >>

(* C19: an input that fails validation leaves the handler at the prompt    *)
(* that read it: after the invalid-email message of adduser, after the     *)
(* both-names-required message of changename and after every other         *)
(* rejection the program is where it was.                                  *)
C19_InvalidInputReprompts ==
  [][ ( \/ "invalid email format" \in out' \ out
        \/ "both names are required" \in out' \ out
        \/ notice' # "" )
        => pc' = pc ]_vars
(* adduser ended on an e-mail address that did not match the pattern,      *)
(* with no identity written                                                *)
C19_AdduserEndedOnInvalidEmail ==
  /\ action = "adduser" /\ pc = "run_return"
  /\ "invalid email format" \in out
  /\ "git identity configured" \notin out
  /\ \A n \in DOMAIN gitLog : gitLog[n].cmd = "init"

(* C20: a handler that changes local repository state (adduser, commit,    *)
(* push, pull, branch) entered where no repository exists runs no git      *)
(* command and leaves the directory without a repository.                  *)
C20_NoRepoNoChange ==
  ( /\ loc.handler \in { "adduser", "commit", "push", "pull", "branch" }
    /\ "isRepo" \in DOMAIN repo0 /\ ~ repo0.isRepo )
    => /\ gitLog = << >>
       /\ ~ repo.isRepo
(* adduser, entered where no repository existed, created one and wrote the *)
(* identity into it                                                        *)
C20_AdduserCreatedRepo ==
  /\ action = "adduser" /\ pc = "run_return"
  /\ "isRepo" \in DOMAIN repo0 /\ ~ repo0.isRepo /\ repo.isRepo
  /\ Len(gitLog) = 3 /\ gitLog[1] = Git("init", EmptyStr, 0)
  /\ gitLog[2].cmd = "config user.name <value>"
  /\ "git identity configured" \in out

(* C21: once provisioning is at the connectivity probes, whatever each     *)
(* probe returns (authenticated, unclear, exception) the next account is   *)
(* probed until every collected account has been, and then the accounts    *)
(* file is written with all accounts collected in the run.                 *)
C21_ProbesNeverStopProvisioning ==
  /\ [][ pc = "prov_probe" =>
           /\ Len(prov'.probes) = Len(prov.probes) + 1
           /\ prov'.accounts_data = prov.accounts_data
           /\ pc' = IF Len(prov'.probes) = Len(prov.accounts_data)
                    THEN "prov_save" ELSE "prov_probe" ]_vars
  /\ [][ pc = "prov_save" =>
           /\ Len(prov.probes) = Len(prov.accounts_data)
           /\ disk'.accountsFile = FileOf(prov.accounts_data) ]_vars
  /\ ( pc = "prov_probe" ) ~>
        ( /\ AccountsSaved
          /\ Len(prov.probes) = Len(prov.accounts_data)
          /\ disk.accountsFile = FileOf(prov.accounts_data) )
(* two accounts were probed, the first probe raised an exception, and both *)
(* accounts were saved                                                     *)
C21_SavedAfterFailedProbe ==
  /\ AccountsSaved /\ Len(prov.accounts_data) = 2
  /\ prov.probes[1] = "exception" /\ Len(prov.probes) = 2
  /\ disk.accountsFile = FileOf(prov.accounts_data)

(* C22: from the moment provisioning has written the SSH config, the file  *)
(* holds exactly the stanzas generated in the run, in the order the        *)
(* accounts were entered; once the accounts file is saved it holds exactly *)
(* the run's records, in the same order and with the stanzas' aliases.     *)
(* Whatever the two files held before the run is gone.                     *)
C22_FilesHoldExactlyTheRun ==
  /\ [][ pc = "prov_account" =>
           \/ prov'.config_entries = prov.config_entries
                /\ prov'.accounts_data = prov.accounts_data
           \/ \E form \in AccountForms :
                /\ prov'.config_entries =
                     Append(prov.config_entries, Stanza(form.account_type, Alias(form.account_type)))
                /\ Len(prov'.accounts_data) = Len(prov.accounts_data) + 1
                /\ SubSeq(prov'.accounts_data, 1, Len(prov.accounts_data)) = prov.accounts_data
                /\ prov'.accounts_data[Len(prov'.accounts_data)].name = form.account_type ]_vars
  /\ []( ( ConfigWritten /\ "config_entries" \in DOMAIN prov ) =>
           /\ disk.sshConfig = prov.config_entries
           /\ Len(prov.config_entries) = Len(prov.accounts_data) )
  /\ []( ( AccountsSaved /\ "accounts_data" \in DOMAIN prov ) =>
           /\ disk.accountsFile = FileOf(prov.accounts_data)
           /\ Len(disk.sshConfig) = Len(prov.accounts_data)
           /\ \A n \in DOMAIN prov.accounts_data :
                /\ disk.sshConfig[n].Host = prov.accounts_data[n].sshAlias
                /\ disk.sshConfig[n].comment = prov.accounts_data[n].name )
(* a run for two accounts completed over files of other origin, and the    *)
(* stanza and the record those files held are gone                         *)
C22_PriorContentReplaced ==
  /\ AccountsSaved /\ pc = "prov_return"
  /\ prov.disk0.sshConfig = << Stanza(<< "other" >>, << "gitlab" >>) >>
  /\ prov.disk0.accountsFile = FileOf(<< AccWork >>)
  /\ Len(disk.sshConfig) = 2
  /\ \A n \in DOMAIN disk.sshConfig : disk.sshConfig[n].Host # << "gitlab" >>
  /\ disk.accountsFile # prov.disk0.accountsFile
  /\ disk.sshConfig[1].Host # disk.sshConfig[2].Host

(* C23: every request sent to the GitHub API carries as bearer token the   *)
(* non-empty value resolved for an account selected for the action, and    *)
(* addresses the user's repository list or a repository under the selected *)
(* account's GitHub user name.                                             *)
C23_RequestsCarryAccountToken ==
  \A n \in DOMAIN httpLog :
    /\ selected # NoAccount
    /\ token # None /\ token # EmptyStr /\ github_user # None
    /\ httpLog[n].auth = << "Bearer " >> \o token
    /\ \/ httpLog[n].url = ApiUserRepos
       \/ /\ Len(httpLog[n].url) >= 1 + Len(github_user)
          /\ SubSeq(httpLog[n].url, 1, 1 + Len(github_user))
               = << "https://api.github.com/repos/" >> \o github_user
(* changename sent its rename request with no account selected: the token  *)
(* and the owner are the text 'None'                                       *)
C23_RenameSentWithoutAccount ==
  /\ action = "changename" /\ selected = NoAccount /\ token = None
  /\ Len(httpLog) = 1 /\ httpLog[1].method = "PATCH"
  /\ httpLog[1].auth = << "Bearer ", "None" >>
  /\ SubSeq(httpLog[1].url, 1, 2) = << "https://api.github.com/repos/", "None" >>

(* C24: the commit-success message is printed, and the push after a commit *)
(* is offered or performed, only when 'git commit -m' exited with code 0.  *)
C24_SuccessOnlyOnExitZero ==
  ( "commit successful" \in out \/ pc = "commit_push" \/ "changes pushed" \in out ) =>
    \A n \in DOMAIN gitLog : gitLog[n].cmd = "commit -m" => gitLog[n].rc = 0
(* 'git commit -m' failed, the success message was printed, the push was   *)
(* offered and, on the answer yes, performed                               *)
C24_PushedAfterFailedCommit ==
  /\ action = "commit" /\ pc = "run_return"
  /\ \E n \in DOMAIN gitLog : gitLog[n].cmd = "commit -m" /\ gitLog[n].rc # 0
  /\ "commit successful" \in out /\ "changes pushed" \in out
  /\ gitLog[Len(gitLog)].cmd \in { "push origin", "push -u origin" }

(* C25: the creation request of addremote is sent only from the step after *)
(* the name loop, for a name of 1 to 100 letters, digits, dots, hyphens    *)
(* and underscores whose availability check was the request just before    *)
(* and returned 404; an invalid name is not checked at all, and a check    *)
(* that returned anything else (200, another status, a network error)      *)
(* leads back to the name prompt.                                          *)
C25_CreateOnlyAfterAvailable ==
  [][ /\ ( /\ Len(httpLog') > Len(httpLog)
           /\ httpLog'[Len(httpLog')].method = "POST" )
         => /\ pc = "addremote_details" /\ loc.handler = "addremote"
            /\ Len(httpLog') = Len(httpLog) + 1 /\ Len(httpLog) > 0
            /\ Len(loc.repo_name) \in 1 .. MaxRepoNameLen
            /\ \A i \in DOMAIN loc.repo_name :
                 loc.repo_name[i] \in Range(LowerChars) \cup Range(UpperChars)
                                       \cup DigitChars \cup { ".", "-", "_" }
            /\ httpLog[Len(httpLog)] = Http("GET", RepoApiUrl(github_user, loc.repo_name), token, 404)
      /\ ( /\ pc = "addremote_name" /\ Len(httpLog') > Len(httpLog)
           /\ httpLog'[Len(httpLog')].status # 404 )
         => pc' = "addremote_name"
      /\ ( pc = "addremote_name" /\ pc' = "addremote_details" )
         => /\ httpLog'[Len(httpLog')].status = 404
            /\ httpLog'[Len(httpLog')].url = RepoApiUrl(github_user, loc'.repo_name) ]_vars
(* the name was taken at the first check and free at the second, and the   *)
(* repository was created                                                  *)
C25_CreatedAfterSecondCheck ==
  /\ action = "addremote" /\ Len(httpLog) = 3
  /\ httpLog[1].method = "GET" /\ httpLog[1].status = 200
  /\ httpLog[2].method = "GET" /\ httpLog[2].status = 404
  /\ httpLog[3].method = "POST" /\ httpLog[3].status = 201
  /\ httpLog[2].url = RepoApiUrl(github_user, loc.repo_name)

(* C26: a tokeninfo action with an account selected and its token present  *)
(* does not end in an unhandled fault.                                     *)
C26_TokeninfoEndsWithoutFault ==
  ( action = "tokeninfo" /\ selected # NoAccount /\ token # None /\ token # EmptyStr )
    => pc # "crashed" /\ fault = "none"
(* tokeninfo, with the account's token resolved, ended in an               *)
(* AttributeError before any request was sent                              *)
C26_TokeninfoCrashed ==
  /\ action = "tokeninfo" /\ selected # NoAccount /\ token # None /\ token # EmptyStr
  /\ pc = "crashed" /\ fault = "AttributeError"
  /\ "token information" \in out /\ httpLog = << >>

(* C27: a clone action with an account selected and its token present      *)
(* reaches the clone handler: its dispatch does not end in an unhandled    *)
(* fault.                                                                  *)
C27_CloneDispatchEndsWithoutFault ==
  ( action = "clone" /\ selected # NoAccount /\ token # None /\ token # EmptyStr )
    => pc # "crashed" /\ fault = "none"
(* clone, with the account's token resolved, ended in a TypeError at the   *)
(* call of the handler: no 'git clone' was run                             *)
C27_CloneCrashed ==
  /\ action = "clone" /\ selected # NoAccount /\ token # None /\ token # EmptyStr
  /\ pc = "crashed" /\ fault = "TypeError"
  /\ gitLog = << >> /\ loc.handler = "none"

(* C28: 'git stash pop' is issued only when the stash push of the same     *)
(* pull created a stash entry: the push exited with code 0 and the stash   *)
(* holds one entry more than when the handler started.                     *)
C28_PopOnlyOwnStash ==
  [][ ( \E n \in (Len(gitLog) + 1) .. Len(gitLog') : gitLog'[n].cmd = "stash pop" )
        => /\ \E m \in DOMAIN gitLog : gitLog[m] = Git("stash push", EmptyStr, 0)
           /\ repo.stash = repo0.stash + 1 ]_vars
(* only untracked files were there, so the stash push saved nothing; after *)
(* the pull the pop took the entry that was in the stash before the pull   *)
C28_PoppedEarlierStash ==
  /\ action = "pull" /\ pc = "run_return"
  /\ "stash" \in DOMAIN repo0 /\ repo0.stash = 1 /\ repo.stash = 0
  /\ repo0.tree = { "untracked" }
  /\ gitLog[3] = Git("stash push", EmptyStr, 0)
  /\ gitLog[Len(gitLog)] = Git("stash pop", EmptyStr, 0)
  /\ "stash restored" \in out

(* C29: the token variable of every account written by provisioning starts *)
(* with GITHUB_GITHUB_ and is neither GITHUB_PERSONAL_TOKEN nor            *)
(* GITHUB_WORK_TOKEN, also for the labels 'personal' and 'work'; a step of *)
(* the setup menu changes no environment variable but those two, so what   *)
(* the token variable of a provisioned account resolves to is the same     *)
(* before and after a token setup.                                         *)
C29_TokenSetupLeavesAccountTokens ==
  /\ (\A label \in { f.account_type : f \in AccountForms }
                      \cup { << "p","e","r","s","o","n","a","l" >>, << "w","o","r","k" >>,
                             << "W","o","r","k" >>, << "P","E","R","S","O","N","A","L" >> } :
          LET var == AccountRecord(label, EmptyStr, EmptyStr, EmptyStr).tokenEnvVar IN
          /\ Len(var) >= 14
          /\ SubSeq(var, 1, 14) = << "G","I","T","H","U","B","_","G","I","T","H","U","B","_" >>
          /\ var \notin { PersonalTokenVar, WorkTokenVar })
  /\ [][ pc = "setup_menu" =>
           /\ \A name \in (DOMAIN env) \cup (DOMAIN env') :
                ( name \notin DOMAIN env \/ name \notin DOMAIN env' \/ env'[name] # env[name] )
                  => name \in { PersonalTokenVar, WorkTokenVar }
           /\ \A i \in DOMAIN accounts :
                ( /\ HasKey(accounts[i], "tokenEnvVar") /\ HasKey(accounts[i], "sshAlias")
                  /\ accounts[i].tokenEnvVar = TokenEnvVar(accounts[i].sshAlias) )
                  => LET var == accounts[i].tokenEnvVar IN
                     /\ (var \in DOMAIN env') = (var \in DOMAIN env)
                     /\ var \in DOMAIN env => env'[var] = env[var] ]_vars
(* the token setup succeeded while the account 'work' is configured: the   *)
(* two fixed variables are set and the account's own variable is not       *)
C29_TokensSetAccountVariableUnset ==
  /\ action = "setup" /\ pc = "setup_menu" /\ "tokens configured" \in out
  /\ WorkTokenVar \in DOMAIN env /\ env[WorkTokenVar] = TypedToken
  /\ \E i \in DOMAIN accounts : accounts[i] = AccWork
  /\ AccWork.tokenEnvVar \notin DOMAIN env

(* C30: every 'git commit -m' in the command log comes after a staging     *)
(* command and the staged-files query that followed it, carries a          *)
(* non-empty message, and was issued with something staged; when the       *)
(* staged-files query found nothing the handler has ended with no commit   *)
(* of either kind; and after 'git commit --amend' there is no              *)
(* 'git commit -m' and no push without the force flag.                     *)
C30_CommitOnlyAfterStagingAndMessage ==
  /\ \A n \in DOMAIN gitLog :
       gitLog[n].cmd = "commit -m" =>
         /\ loc.handler = "commit" /\ loc.add_action # ""
         /\ gitLog[n].arg # EmptyStr /\ gitLog[n].arg = loc.commit_msg
         /\ "files staged" \in out
         /\ \E a, d \in 1 .. (n - 1) :
              /\ a < d /\ gitLog[a].cmd \in AddCommands /\ gitLog[d] = DiffCached
  /\ pc = "commit_perform" => ( "staged" \in repo.tree /\ loc.commit_msg # EmptyStr )
  /\ "no changes staged" \in out =>
       /\ pc \in { "run_return", "exited" }
       /\ "staged" \notin repo.tree
       /\ \A n \in DOMAIN gitLog : gitLog[n].cmd \notin { "commit -m", "commit --amend" }
  /\ ( \E n \in DOMAIN gitLog : gitLog[n].cmd = "commit --amend" ) =>
       \A m \in DOMAIN gitLog : gitLog[m].cmd \notin { "commit -m", "push origin", "push -u origin" }
(* tracked changes were staged with 'git add -u' and committed with a      *)
(* message made of a template prefix alone                                 *)
C30_CommittedWithTemplate ==
  /\ action = "commit" /\ loc.handler = "commit"
  /\ loc.add_action = "all tracked files" /\ loc.commit_msg = << "fix: " >>
  /\ \E n \in DOMAIN gitLog : gitLog[n] = Git("commit -m", << "fix: " >>, 0)
  /\ gitLog[2] = Git("add -u", EmptyStr, 0) /\ gitLog[3] = DiffCached

====
